---- MODULE Spec2Model ----
(***************************************************************************)
(* Verification model of the AIVoice synthesis pipeline                    *)
(* (backend/app/services/tts_service.py, backend/app/tasks/tts_tasks.py,   *)
(* backend/app/api/tts.py).                                                *)
(*                                                                         *)
(* Two specifications share this module:                                   *)
(*   SpecSplit : the pure segmentation function TTSService.split_text,     *)
(*               applied to every text over a small alphabet;              *)
(*   Spec      : one synthesis job, from the queued Celery task through    *)
(*               generate_tts_async, the batches of chunk tasks, the       *)
(*               assembler and the final database update, interleaved      *)
(*               with the cancel endpoint of the API.                      *)
(*                                                                         *)
(* A text is a sequence of characters; a character is a one-element        *)
(* string.  Characters that are not ASCII are written by their code point  *)
(* ("u3002" is the ideographic full stop, "uFF0C" the fullwidth comma).    *)
(***************************************************************************)
EXTENDS Integers, Sequences, FiniteSets, TLC

VARIABLES
    \* ---- SpecSplit: one call of split_text ----
    text,          \* the argument text
    max_chars,     \* the argument max_chars
    result,        \* NotRun, or the outcome of split_text(text, max_chars)
    length_result, \* NotRun, or the outcome of _split_by_length on its own
    \* ---- Spec: one synthesis job ----
    \* the job's inputs
    use_ssml,         \* style (markup) mode or legacy mode
    text_empty,       \* the text is empty after cleaning
    nchunks,          \* len(chunks) of generate_tts_async's segmentation
    worker_count,     \* len(chunks) of the worker's own segmentation
    \* the configuration
    batch_size,       \* TTSService.batch_size
    \* the TTSRequest row
    status,           \* TaskStatus
    total_chunks,
    processed_chunks,
    audio_url,
    error_message,
    \* the API
    cancel_ok,        \* cancel_tts_request has been accepted for the job
    \* the Celery worker (_process_tts_task_internal)
    worker_pc,
    loop_open,        \* the worker's event loop has not been closed
    \* generate_tts_async / _process_chunks_in_batches
    gen_pc,
    exc,              \* the exception generate_tts_async ends with, or None
    max_concurrency,
    batch_start,
    processed,        \* the local counter of _process_chunks_in_batches
    sem,              \* free slots of the batch's asyncio.Semaphore
    gather_exc,       \* first exception raised by a task of the batch
    \* the chunk tasks (process_chunk), by position in chunks
    pc,
    attempt,          \* the loop variable of process_chunk
    chunk_index,      \* the chunk_index the task computed
    calls,            \* generate_audio_chunk calls the task has made
    sleeps,           \* asyncio.sleep(1) calls the task has made
    last_error,       \* the exception of the task's last failed attempt
    out_of_order,     \* a chunk has finished before a chunk of lower index
    \* the file system
    dir_exists,       \* temp/<task_id>/parts exists
    part_files,       \* the part files, by the index in the file name
    manifest,         \* the file list handed to ffmpeg, <<>> before
    final_audio,      \* content of audio/<task_id>.mp3, <<>> before
    assembly,         \* the way concatenate_audio ended, NoCall before
    concat_ret,       \* what concatenate_audio returned, NoCall before
    \* ---- SpecSave: one call of SSMLCommunicate.save ----
    save_pc,          \* position in save
    received,         \* the messages the websocket has yielded so far
    audio_data,       \* the local audio_data
    audio_was_received,
    output_file,      \* content of output_file, NotWritten before
    save_exc,         \* the exception save ends with, or None
    \* ---- SpecChunk: one process_chunk task ----
    ck_use_ssml,      \* the argument use_ssml
    ck_config,        \* config_obj: voice.name, pace.base_rate, mood.pitch
    ck_args,          \* the arguments voice, rate, pitch
    ck_pc,            \* position in process_chunk
    ck_attempt,       \* the loop variable attempt
    ck_calls,         \* the synthesis calls made so far, in order
    ck_file,          \* content of output_file, <<>> when absent or empty
    ck_failed,        \* times the except clause of process_chunk was entered
    ck_exc,           \* the exception process_chunk ends with, or None
    \* ---- SpecTune: get_optimal_chunk_size and get_optimal_concurrency ----
    tn_base_chunk_size,   \* settings.max_chars_per_chunk
    tn_base_concurrency,  \* settings.concurrency
    tn_memory_usage,      \* what check_memory_usage returns
    tn_text_length,       \* the argument text_length
    tn_chunk_size,        \* what get_optimal_chunk_size returned
    tn_concurrency,       \* what get_optimal_concurrency returned
    \* ---- SpecSsml: SimpleSSMLGenerator.generate_ssml ----
    sg_config,        \* self.config
    sg_text,          \* the argument text
    sg_ssml,          \* the document returned
    sg_other_pause,   \* structure.comma_pause of a second configuration
    sg_again,         \* the document a second call returned
    \* ---- SpecPreset: create_ssml_config_from_preset ----
    pr_presets,       \* the table PRESET_CONFIGS
    pr_preset_name,   \* the argument preset_name of the last call
    pr_overrides,     \* the keyword arguments of the last call
    pr_result,         \* what the last call returned or raised
    \* ---- SpecClean: clean_text applied once and once more ----
    cl_text,          \* the argument text
    cl_once,          \* NotCleaned, or clean_text(text)
    cl_twice,         \* NotCleaned, or clean_text(clean_text(text))
    \* ---- SpecCount: the two segmentations of one job's text ----
    cn_use_ssml,      \* style mode or legacy mode
    cn_text,          \* tts_request.text
    cn_max_sentence_len, \* structure.max_sentence_len of the style config
    cn_memory_usage,  \* psutil.virtual_memory().percent
    cn_worker,        \* NoSegmentation, or the worker's segmentation
    cn_gen            \* NoSegmentation, or generate_tts_async's

(***************************************************************************)
(* Bounds of the model                                                     *)
(***************************************************************************)
MaxLen == 5
MaxS == 3

(***************************************************************************)
(* Characters                                                              *)
(***************************************************************************)
LETTER == "a"
SPACE == " "
NEWLINE == "\n"
CJK_STOP == "u3002"
CJK_COMMA == "uFF0C"

Alphabet == {LETTER, SPACE, NEWLINE, CJK_STOP, CJK_COMMA}

\* str.strip() and the regex class \s: the whitespace of the alphabet
IsSpace(c) == c \in {SPACE, NEWLINE}

\* r'([。！？.!?；;])' (tts_service.py:157)
sentence_endings == {CJK_STOP, "uFF01", "uFF1F", ".", "!", "?", "uFF1B", ";"}

\* r'([，、；;])' (tts_service.py:186)
separators == {CJK_COMMA, "u3001", "uFF1B", ";"}

\* '，。！？；; ' (tts_service.py:224)
break_chars == {CJK_COMMA, CJK_STOP, "uFF01", "uFF1F", "uFF1B", ";", SPACE}

\* range(max_chars - 1, max_chars - 50, -1) (tts_service.py:223)
LookBack == 50

(***************************************************************************)
(* Python string primitives                                                *)
(***************************************************************************)
RECURSIVE LStrip(_)
LStrip(t) ==
    IF t = <<>> THEN <<>>
    ELSE IF IsSpace(Head(t)) THEN LStrip(Tail(t)) ELSE t

RECURSIVE RStrip(_)
RStrip(t) ==
    IF t = <<>> THEN <<>>
    ELSE IF IsSpace(t[Len(t)]) THEN RStrip(SubSeq(t, 1, Len(t) - 1)) ELSE t

Strip(t) == RStrip(LStrip(t))

\* Python slice bound: a negative bound counts from the end, then clamp
PyBound(n, k) ==
    LET k1 == IF k < 0 THEN k + n ELSE k
    IN  IF k1 < 0 THEN 0 ELSE IF k1 > n THEN n ELSE k1

\* t[lo:hi] with 0-based Python bounds
PySlice(t, lo, hi) ==
    SubSeq(t, PyBound(Len(t), lo) + 1, PyBound(Len(t), hi))

\* t[k] is an IndexError outside -len .. len-1
PyIndexOk(t, k) == k >= -Len(t) /\ k < Len(t)

PyIndex(t, k) == IF k < 0 THEN t[k + Len(t) + 1] ELSE t[k + 1]

(***************************************************************************)
(* Strategy 1: _split_by_paragraph                                         *)
(***************************************************************************)
\* end (1-based) of the maximal whitespace run that starts at p
RECURSIVE WsRunEnd(_, _)
WsRunEnd(t, p) ==
    IF p + 1 <= Len(t) /\ IsSpace(t[p + 1]) THEN WsRunEnd(t, p + 1) ELSE p

\* r'\n\s*\n+' matched at p: the greedy \s* backs off to the last newline
\* of the whitespace run; 0 when there is no match at p
ParaMatchEnd(t, p) ==
    IF t[p] # NEWLINE THEN 0
    ELSE LET e == WsRunEnd(t, p)
             nls == {q \in (p + 1)..e : t[q] = NEWLINE}
         IN  IF nls = {} THEN 0
             ELSE CHOOSE q \in nls : \A r \in nls : r <= q

\* re.split(r'\n\s*\n+', t): the pieces between the matches
RECURSIVE ReSplitPara(_, _, _)
ReSplitPara(t, start, p) ==
    IF p > Len(t) THEN <<SubSeq(t, start, Len(t))>>
    ELSE LET q == ParaMatchEnd(t, p)
         IN  IF q = 0 THEN ReSplitPara(t, start, p + 1)
             ELSE <<SubSeq(t, start, p - 1)>> \o ReSplitPara(t, q + 1, q + 1)

\* the loop of tts_service.py:135-148
RECURSIVE PackParagraphs(_, _, _, _, _)
PackParagraphs(paragraphs, i, current_chunk, chunks, S) ==
    IF i > Len(paragraphs)
    THEN IF Strip(current_chunk) # <<>>
         THEN Append(chunks, Strip(current_chunk)) ELSE chunks
    ELSE LET para == Strip(paragraphs[i])
         IN  IF para = <<>>
             THEN PackParagraphs(paragraphs, i + 1, current_chunk, chunks, S)
             ELSE IF Len(current_chunk) + Len(para) + 2 <= S
             THEN PackParagraphs(paragraphs, i + 1,
                      IF current_chunk # <<>>
                      THEN current_chunk \o <<NEWLINE, NEWLINE>> \o para
                      ELSE para,
                      chunks, S)
             ELSE PackParagraphs(paragraphs, i + 1, para,
                      IF Strip(current_chunk) # <<>>
                      THEN Append(chunks, Strip(current_chunk)) ELSE chunks,
                      S)

split_by_paragraph(t, S) ==
    LET paragraphs == ReSplitPara(Strip(t), 1, 1)
        chunks == PackParagraphs(paragraphs, 1, <<>>, <<>>, S)
    IN  IF chunks # <<>> THEN chunks ELSE <<t>>

(***************************************************************************)
(* Strategies 2 and 3: _split_by_sentences, _split_by_commas               *)
(***************************************************************************)
\* re.split(r'([...])', t) with a capturing group: text, separator, text, ...
RECURSIVE ReSplitCapture(_, _, _, _)
ReSplitCapture(t, seps, start, p) ==
    IF p > Len(t) THEN <<SubSeq(t, start, Len(t))>>
    ELSE IF t[p] \in seps
         THEN <<SubSeq(t, start, p - 1), <<t[p]>> >>
                  \o ReSplitCapture(t, seps, p + 1, p + 1)
         ELSE ReSplitCapture(t, seps, start, p + 1)

\* the loops of tts_service.py:163-177 and 192-210; i is the 0-based index
RECURSIVE PackParts(_, _, _, _, _)
PackParts(parts, i, current_chunk, chunks, S) ==
    IF i >= Len(parts)
    THEN IF Strip(current_chunk) # <<>>
         THEN Append(chunks, Strip(current_chunk)) ELSE chunks
    ELSE LET full_part == IF i + 1 < Len(parts)
                          THEN parts[i + 1] \o parts[i + 2]
                          ELSE parts[i + 1]
         IN  IF Len(current_chunk) + Len(full_part) <= S
             THEN PackParts(parts, i + 2, current_chunk \o full_part, chunks, S)
             ELSE PackParts(parts, i + 2, full_part,
                      IF Strip(current_chunk) # <<>>
                      THEN Append(chunks, Strip(current_chunk)) ELSE chunks,
                      S)

split_by_sentences(t, S) ==
    LET sentences == ReSplitCapture(t, sentence_endings, 1, 1)
        chunks == PackParts(sentences, 0, <<>>, <<>>, S)
    IN  IF chunks # <<>> THEN chunks ELSE <<t>>

split_by_commas(t, S) ==
    LET parts == ReSplitCapture(t, separators, 1, 1)
        chunks == PackParts(parts, 0, <<>>, <<>>, S)
    IN  IF chunks # <<>> THEN chunks ELSE <<t>>

(***************************************************************************)
(* Strategy 4: _split_by_length                                            *)
(***************************************************************************)
\* the inner loop of tts_service.py:223-226, from offset j downward:
\* "found" with the offset, "none", or "error" (IndexError of text[i + j])
RECURSIVE FindBreak(_, _, _, _)
FindBreak(t, i, j, S) ==
    IF j <= S - LookBack THEN [kind |-> "none", j |-> 0]
    ELSE IF ~PyIndexOk(t, i + j) THEN [kind |-> "error", j |-> j]
    ELSE IF PyIndex(t, i + j) \in break_chars THEN [kind |-> "found", j |-> j]
    ELSE FindBreak(t, i, j - 1, S)

\* the outer loop of tts_service.py:218-227, from offset i (0-based)
RECURSIVE LengthLoop(_, _, _, _)
LengthLoop(t, i, S, chunks) ==
    IF i >= Len(t) THEN [raised |-> FALSE, chunks |-> chunks]
    ELSE LET b == IF i + S < Len(t) THEN FindBreak(t, i, S - 1, S)
                  ELSE [kind |-> "none", j |-> 0]
             chunk == IF b.kind = "found" THEN PySlice(t, i, i + b.j + 1)
                      ELSE PySlice(t, i, i + S)
         IN  IF b.kind = "error" THEN [raised |-> TRUE, chunks |-> <<>>]
             ELSE LengthLoop(t, i + S, S, Append(chunks, Strip(chunk)))

split_by_length(t, S) == LengthLoop(t, 0, S, <<>>)

(***************************************************************************)
(* split_text: the strategy cascade                                        *)
(***************************************************************************)
\* the test of tts_service.py:72 that ends the cascade
Accepted(chunks, S) == Len(chunks) > 1 \/ Len(chunks[1]) <= S

split_text(t, S) ==
    IF Len(t) <= S THEN [raised |-> FALSE, chunks |-> <<t>>, strategy |-> 0]
    ELSE LET c1 == split_by_paragraph(t, S)
             c2 == split_by_sentences(t, S)
             c3 == split_by_commas(t, S)
             r4 == split_by_length(t, S)
         IN  IF Accepted(c1, S)
             THEN [raised |-> FALSE, chunks |-> c1, strategy |-> 1]
             ELSE IF Accepted(c2, S)
             THEN [raised |-> FALSE, chunks |-> c2, strategy |-> 2]
             ELSE IF Accepted(c3, S)
             THEN [raised |-> FALSE, chunks |-> c3, strategy |-> 3]
             ELSE [raised |-> r4.raised, chunks |-> r4.chunks, strategy |-> 4]

RECURSIVE Concat(_)
Concat(chunks) ==
    IF chunks = <<>> THEN <<>> ELSE Head(chunks) \o Concat(Tail(chunks))

(***************************************************************************)
(* SpecSplit                                                               *)
(***************************************************************************)
NotRun == [raised |-> FALSE, chunks |-> <<>>, strategy |-> -1]

Texts == UNION {[1..n -> Alphabet] : n \in 0..MaxLen}

None == "None"

NoExc == [kind |-> "none", chunk |-> -1, attempts |-> 0, cause |-> <<>>]

NoFile == [audio |-> -1, complete |-> FALSE]

rowVars == <<status, total_chunks, processed_chunks, audio_url, error_message>>

inputVars == <<use_ssml, text_empty, nchunks, worker_count, batch_size>>

apiVars == <<cancel_ok>>

genVars == <<gen_pc, exc, max_concurrency, batch_start, processed>>

taskVars == <<sem, gather_exc, pc, attempt, chunk_index, calls, sleeps,
             last_error, out_of_order>>

fileVars == <<dir_exists, part_files, manifest, final_audio>>

asmVars == <<assembly, concat_ret>>

NoCall == "NoCall"

jobVars == <<inputVars, rowVars, apiVars, worker_pc, loop_open, genVars,
             taskVars, fileVars, asmVars>>

splitVars == <<text, max_chars, result, length_result>>

saveVars == <<save_pc, received, audio_data, audio_was_received, output_file,
             save_exc>>

chunkVars == <<ck_use_ssml, ck_config, ck_args, ck_pc, ck_attempt, ck_calls,
              ck_file, ck_failed, ck_exc>>

tuneVars == <<tn_base_chunk_size, tn_base_concurrency, tn_memory_usage,
             tn_text_length, tn_chunk_size, tn_concurrency>>

ssmlVars == <<sg_config, sg_text, sg_ssml, sg_other_pause, sg_again>>

presetVars == <<pr_presets, pr_preset_name, pr_overrides, pr_result>>

cleanVars == <<cl_text, cl_once, cl_twice>>

countVars == <<cn_use_ssml, cn_text, cn_max_sentence_len, cn_memory_usage,
               cn_worker, cn_gen>>

\* the variables the specification of splitVars leaves alone
offSplitVars ==
    <<jobVars, saveVars, chunkVars, tuneVars, ssmlVars, presetVars,
      cleanVars, countVars>>

\* the variables the specification of saveVars leaves alone
offSaveVars ==
    <<splitVars, jobVars, chunkVars, tuneVars, ssmlVars, presetVars,
      cleanVars, countVars>>

\* the variables the specification of chunkVars leaves alone
offChunkVars ==
    <<splitVars, jobVars, saveVars, tuneVars, ssmlVars, presetVars,
      cleanVars, countVars>>

\* the variables the specification of tuneVars leaves alone
offTuneVars ==
    <<splitVars, jobVars, saveVars, chunkVars, ssmlVars, presetVars,
      cleanVars, countVars>>

\* the variables the specification of ssmlVars leaves alone
offSsmlVars ==
    <<splitVars, jobVars, saveVars, chunkVars, tuneVars, presetVars,
      cleanVars, countVars>>

\* the variables the specification of presetVars leaves alone
offPresetVars ==
    <<splitVars, jobVars, saveVars, chunkVars, tuneVars, ssmlVars,
      cleanVars, countVars>>

\* the variables a synthesis job leaves alone
offJobVars == <<splitVars, saveVars, chunkVars, tuneVars, ssmlVars,
                presetVars, cleanVars, countVars>>

\* the variables the specification of cleanVars leaves alone
offCleanVars ==
    <<splitVars, jobVars, saveVars, chunkVars, tuneVars, ssmlVars, presetVars,
      countVars>>

\* the variables the specification of countVars leaves alone
offCountVars ==
    <<splitVars, jobVars, saveVars, chunkVars, tuneVars, ssmlVars, presetVars,
      cleanVars>>

NotCleaned == <<"NotCleaned">>

NoSegmentation ==
    [kind |-> "none", text |-> <<>>, chunk_size |-> 0, chunks |-> <<>>]

NotWritten == <<"NotWritten">>

\* no call of split_text
SplitIdle ==
    /\ text = <<>> /\ max_chars = 1 /\ result = NotRun
    /\ length_result = NotRun

\* no call of SSMLCommunicate.save
SaveIdle ==
    /\ save_pc = None /\ received = <<>> /\ audio_data = <<>>
    /\ audio_was_received = FALSE /\ output_file = NotWritten
    /\ save_exc = None

\* no process_chunk task on its own
ChunkIdle ==
    /\ ck_use_ssml = FALSE /\ ck_config = None /\ ck_args = None
    /\ ck_pc = None /\ ck_attempt = 0 /\ ck_calls = <<>> /\ ck_file = <<>>
    /\ ck_failed = 0 /\ ck_exc = None

\* a number a function returned: its value and whether it is a float
NotCalled == [value |-> 0, float |-> FALSE, called |-> FALSE]

\* no call of the two tuning functions on their own
TuneIdle ==
    /\ tn_base_chunk_size = 0 /\ tn_base_concurrency = 0
    /\ tn_memory_usage = 0 /\ tn_text_length = 0
    /\ tn_chunk_size = NotCalled /\ tn_concurrency = NotCalled

\* generate_ssml has not returned
NoDocument == <<>>

\* no call of generate_ssml on its own
SsmlIdle ==
    /\ sg_config = None /\ sg_text = <<>> /\ sg_ssml = NoDocument
    /\ sg_other_pause = <<>> /\ sg_again = NoDocument

\* no call of create_ssml_config_from_preset on its own
PresetIdle ==
    /\ pr_presets = None /\ pr_preset_name = None /\ pr_overrides = <<>>
    /\ pr_result = None

\* no call of clean_text on its own
CleanIdle == cl_text = <<>> /\ cl_once = NotCleaned /\ cl_twice = NotCleaned

\* no comparison of the two segmentations
CountIdle ==
    /\ cn_use_ssml = FALSE /\ cn_text = <<>> /\ cn_max_sentence_len = 0
    /\ cn_memory_usage = 0
    /\ cn_worker = NoSegmentation /\ cn_gen = NoSegmentation

\* no job
JobIdle ==
    /\ use_ssml = FALSE /\ text_empty = FALSE /\ nchunks = 0 /\ worker_count = 0
    /\ batch_size = 0
    /\ status = None /\ total_chunks = 0 /\ processed_chunks = 0
    /\ audio_url = None /\ error_message = NoExc
    /\ cancel_ok = FALSE
    /\ worker_pc = None /\ loop_open = FALSE
    /\ gen_pc = None /\ exc = NoExc /\ max_concurrency = 0
    /\ batch_start = 0 /\ processed = 0
    /\ sem = 0 /\ gather_exc = NoExc
    /\ pc = <<>> /\ attempt = <<>> /\ chunk_index = <<>>
    /\ calls = <<>> /\ sleeps = <<>> /\ last_error = <<>>
    /\ out_of_order = FALSE
    /\ dir_exists = FALSE /\ part_files = <<>> /\ manifest = <<>> /\ final_audio = <<>>
    /\ assembly = NoCall /\ concat_ret = NoCall

InitSplit ==
    /\ text \in Texts
    /\ max_chars \in 1..MaxS
    /\ result = NotRun
    /\ length_result = NotRun
    /\ JobIdle
    /\ SaveIdle
    /\ ChunkIdle
    /\ TuneIdle
    /\ SsmlIdle
    /\ PresetIdle
    /\ CleanIdle
    /\ CountIdle

CallSplit ==
    /\ result = NotRun
    /\ result' = split_text(text, max_chars)
    /\ UNCHANGED <<text, max_chars, length_result>>
    /\ UNCHANGED offSplitVars

\* tts_service.py:214-227 called on its own
CallSplitByLength ==
    /\ length_result = NotRun
    /\ length_result' = [raised |-> split_by_length(text, max_chars).raised,
                         chunks |-> split_by_length(text, max_chars).chunks,
                         strategy |-> 4]
    /\ UNCHANGED <<text, max_chars, result>>
    /\ UNCHANGED offSplitVars

NextSplit == CallSplit \/ CallSplitByLength

vars == <<splitVars, jobVars, saveVars, chunkVars, tuneVars, ssmlVars,
          presetVars, cleanVars, countVars>>

SpecSplit == InitSplit /\ [][NextSplit]_vars

(***************************************************************************)
(* Spec: one synthesis job                                                 *)
(***************************************************************************)
\* Bounds of the job model.  batch_size is an attribute of the service
\* (tts_service.py:36, set to 5 by __init__); a job runs under one value of
\* it, drawn from 1..MaxBatchSize in Init, and has at most MaxChunks chunks.
MaxChunks == 3
MaxBatchSize == 2

\* settings.max_retries (core/config.py:27)
max_retries == 3

\* settings.concurrency (core/config.py:28)
concurrency == 3

\* TTSService.__init__ (tts_service.py:35)
max_memory_usage_percent == 70

\* readings of psutil.virtual_memory().percent and text lengths tried
MemReadings == {50, 85}
TextLengths == {1000, 60000, 120000}

Chunks == 0..(MaxChunks - 1)

Max(a, b) == IF a >= b THEN a ELSE b

Min(a, b) == IF a <= b THEN a ELSE b

\* the int n
PyInt(n) == [value |-> n, float |-> FALSE, called |-> TRUE]

\* max(a, x) for an int a and a float x of whole value: the first of the
\* largest
MaxIntFloat(a, x) ==
    IF a >= x THEN PyInt(a) ELSE [value |-> x, float |-> TRUE, called |-> TRUE]

\* max(1, base_concurrency // 4)
QuarteredConcurrency_NoFloor(base_concurrency) == PyInt(base_concurrency \div 4)

QuarteredConcurrency(base_concurrency) == PyInt(Max(1, base_concurrency \div 4))

\* get_optimal_concurrency with settings.concurrency = base_concurrency;
\* base // 1.5 is the float floor(base / 1.5)
OptimalConcurrency(base_concurrency, text_length, memory_usage) ==
    IF memory_usage > max_memory_usage_percent
    THEN QuarteredConcurrency(base_concurrency)
    ELSE IF text_length > 100000 THEN PyInt(Max(2, base_concurrency \div 2))
    ELSE IF text_length > 50000
    THEN MaxIntFloat(3, (2 * base_concurrency) \div 3)
    ELSE PyInt(base_concurrency)

get_optimal_concurrency(text_length, memory_usage) ==
    OptimalConcurrency(concurrency, text_length, memory_usage).value

\* get_optimal_chunk_size with settings.max_chars_per_chunk =
\* base_chunk_size; base // 1.2 is the float floor(base / 1.2)
OptimalChunkSize(base_chunk_size, text_length, memory_usage) ==
    IF memory_usage > max_memory_usage_percent
    THEN PyInt(Max(500, base_chunk_size \div 2))
    ELSE IF text_length > 100000
    THEN MaxIntFloat(800, (2 * base_chunk_size) \div 3)
    ELSE IF text_length > 50000
    THEN MaxIntFloat(1000, (5 * base_chunk_size) \div 6)
    ELSE PyInt(base_chunk_size)

\* the methods class TTSService defines (tts_service.py:21-661)
TTSServiceMethods ==
    {"clean_text", "split_text", "check_memory_usage",
     "force_garbage_collection", "get_optimal_chunk_size",
     "get_optimal_concurrency", "_split_by_paragraph", "_split_by_sentences",
     "_split_by_commas", "_split_by_length", "generate_audio_chunk",
     "generate_tts_async", "_process_chunks_in_batches", "concatenate_audio",
     "get_audio_url", "delete_audio", "get_available_ssml_presets",
     "create_ssml_config_from_preset"}

(***************************************************************************)
(* Part file names: f"{chunk_index:05d}.mp3", sorted as strings            *)
(***************************************************************************)
PadWidth == 5

RECURSIVE DecimalDigits(_)
DecimalDigits(k) ==
    IF k < 10 THEN <<k>> ELSE Append(DecimalDigits(k \div 10), k % 10)

ZeroPad(d, width) ==
    IF Len(d) >= width THEN d ELSE [i \in 1..(width - Len(d)) |-> 0] \o d

PartName(k) == ZeroPad(DecimalDigits(k), PadWidth)

RECURSIVE ParseDecimal(_)
ParseDecimal(d) ==
    IF d = <<>> THEN 0
    ELSE 10 * ParseDecimal(SubSeq(d, 1, Len(d) - 1)) + d[Len(d)]

\* string order
RECURSIVE LexLess(_, _)
LexLess(a, b) ==
    IF a = <<>> THEN b # <<>>
    ELSE IF b = <<>> THEN FALSE
    ELSE IF a[1] # b[1] THEN a[1] < b[1]
    ELSE LexLess(Tail(a), Tail(b))

\* mutant: the names taken in descending order
RECURSIVE SortNames_Descending(_)
SortNames_Descending(names) ==
    IF names = {} THEN <<>>
    ELSE LET m == CHOOSE x \in names : \A y \in names : x = y \/ LexLess(y, x)
         IN  <<m>> \o SortNames_Descending(names \ {m})

RECURSIVE SortNames(_)
SortNames(names) ==
    IF names = {} THEN <<>>
    ELSE LET m == CHOOSE x \in names : \A y \in names : x = y \/ LexLess(x, y)
         IN  <<m>> \o SortNames(names \ {m})

\* sorted(parts_dir.glob("*.mp3"))
SortedParts ==
    SortNames({PartName(k) : k \in {j \in Chunks : part_files[j] # NoFile}})

AudioOf(name) == part_files[ParseDecimal(name)].audio

(***************************************************************************)
(* Initial state: the request row as create_tts_request leaves it and the  *)
(* Celery task queued                                                      *)
(***************************************************************************)
Init ==
    /\ SplitIdle
    /\ SaveIdle
    /\ ChunkIdle
    /\ TuneIdle
    /\ SsmlIdle
    /\ PresetIdle
    /\ CleanIdle
    /\ CountIdle
    /\ use_ssml \in BOOLEAN
    /\ text_empty \in BOOLEAN
    /\ nchunks \in (IF text_empty THEN {0} ELSE 1..MaxChunks)
    /\ worker_count \in (IF text_empty THEN {1} ELSE {nchunks, nchunks + 1})
    /\ batch_size \in 1..MaxBatchSize
    /\ status = "pending"
    /\ total_chunks = 0
    /\ processed_chunks = 0
    /\ audio_url = None
    /\ error_message = NoExc
    /\ cancel_ok = FALSE
    /\ worker_pc = "queued"
    /\ loop_open = FALSE
    /\ gen_pc = "idle"
    /\ exc = NoExc
    /\ max_concurrency = 0
    /\ batch_start = 0
    /\ processed = 0
    /\ sem = 0
    /\ gather_exc = NoExc
    /\ pc = [c \in Chunks |-> "new"]
    /\ attempt = [c \in Chunks |-> 0]
    /\ chunk_index = [c \in Chunks |-> -1]
    /\ calls = [c \in Chunks |-> 0]
    /\ sleeps = [c \in Chunks |-> 0]
    /\ last_error = [c \in Chunks |-> <<>>]
    /\ out_of_order = FALSE
    /\ dir_exists = FALSE
    /\ part_files = [k \in Chunks |-> NoFile]
    /\ manifest = <<>>
    /\ final_audio = <<>>
    /\ assembly = NoCall
    /\ concat_ret = NoCall

(***************************************************************************)
(* The API: cancel_tts_request (api/tts.py:136-153)                        *)
(***************************************************************************)
\* a job that is neither pending nor processing is refused with HTTP 400
Cancel ==
    /\ IF status \in {"pending", "processing"}
       THEN status' = "cancelled" /\ cancel_ok' = TRUE
       ELSE UNCHANGED <<status, cancel_ok>>
    /\ UNCHANGED <<offJobVars, asmVars, inputVars, total_chunks, processed_chunks,
                   audio_url, error_message, worker_pc, loop_open, genVars,
                   taskVars, fileVars>>

(***************************************************************************)
(* The worker: _process_tts_task_internal (tasks/tts_tasks.py:27-162)      *)
(***************************************************************************)
\* lines 29-51: the row is marked processing, the event loop is created
WorkerStart ==
    /\ worker_pc = "queued"
    /\ status' = "processing"
    /\ loop_open' = TRUE
    /\ worker_pc' = "count"
    /\ UNCHANGED <<offJobVars, asmVars, inputVars, total_chunks, processed_chunks,
                   audio_url, error_message, apiVars, genVars, taskVars,
                   fileVars>>

\* lines 54-91: the worker segments the text itself to record total_chunks
WorkerCount ==
    /\ worker_pc = "count"
    /\ total_chunks' = worker_count
    /\ worker_pc' = "generate"
    /\ UNCHANGED <<offJobVars, asmVars, inputVars, status, processed_chunks, audio_url,
                   error_message, apiVars, loop_open, genVars, taskVars,
                   fileVars>>

(***************************************************************************)
(* generate_tts_async (tts_service.py:374-434)                             *)
(***************************************************************************)
\* mutant: the directory made at the start is left behind
Finally_NoRmtree ==
    /\ dir_exists' = TRUE
    /\ UNCHANGED part_files

\* the finally clause (tts_service.py:430-434): shutil.rmtree(task_dir)
Finally ==
    /\ dir_exists' = FALSE
    /\ part_files' = [k \in Chunks |-> NoFile]

\* lines 377-411: mkdir, cleaning, chunk size, concurrency, segmentation;
\* a text that is empty after cleaning raises through the finally clause
GenStart ==
    /\ worker_pc = "generate"
    /\ gen_pc = "idle"
    /\ IF text_empty
       THEN /\ exc' = [kind |-> "ValueError", chunk |-> -1, attempts |-> 0,
                       cause |-> <<>>]
            /\ gen_pc' = "exit"
            /\ Finally
            /\ UNCHANGED max_concurrency
       ELSE /\ \E memory_usage \in MemReadings, text_length \in TextLengths :
                  max_concurrency' =
                      get_optimal_concurrency(text_length, memory_usage)
            /\ gen_pc' = "batch"
            /\ dir_exists' = TRUE
            /\ UNCHANGED <<exc, part_files>>
    /\ UNCHANGED <<offJobVars, asmVars, inputVars, rowVars, apiVars, worker_pc,
                   loop_open, batch_start, processed, taskVars,
                   manifest, final_audio>>

\* the chunks of the batch that starts at bs
Batch(bs) == bs..(Min(bs + batch_size, nchunks) - 1)

\* chunk_index = batch_start + index (tts_service.py:462)
ChunkIndex(bs, index) == bs + index

\* asyncio.Semaphore(max_concurrency) (tts_service.py:459)
NewSemaphore == max_concurrency

\* lines 445-478: one iteration of the batch loop up to the await of gather;
\* every task of the batch is created and computes its chunk_index
BatchStart ==
    /\ gen_pc = "batch"
    /\ sem' = NewSemaphore
    /\ pc' = [c \in Chunks |-> IF c \in Batch(batch_start) THEN "wait" ELSE pc[c]]
    /\ attempt' = [c \in Chunks |->
                      IF c \in Batch(batch_start) THEN 1 ELSE attempt[c]]
    /\ chunk_index' = [c \in Chunks |->
                          IF c \in Batch(batch_start)
                          THEN ChunkIndex(batch_start, c - batch_start)
                          ELSE chunk_index[c]]
    /\ gen_pc' = "gather"
    /\ UNCHANGED <<offJobVars, asmVars, inputVars, rowVars, apiVars, worker_pc,
                   loop_open, exc, max_concurrency, batch_start, processed,
                   gather_exc, calls, sleeps, last_error, out_of_order,
                   fileVars>>

(***************************************************************************)
(* process_chunk (tts_service.py:461-474) and generate_audio_chunk         *)
(* (tts_service.py:230-372)                                                *)
(***************************************************************************)
\* mutant: the limiter lets every task in
SemFree_NoLimit == TRUE

\* async with sem: a slot is free
SemFree == sem > 0

\* mutant: the test of the last attempt is off by one
LastAttempt_OffByOne(c) == attempt[c] = max_retries + 1

\* if attempt == settings.max_retries (tts_service.py:472)
LastAttempt(c) == attempt[c] = max_retries

\* the RuntimeError of tts_service.py:473
ChunkError(c) ==
    [kind |-> "RuntimeError", chunk |-> chunk_index[c],
     attempts |-> max_retries, cause |-> <<c, attempt[c]>>]

\* the except clause of process_chunk after a failed attempt of task c:
\* raise on the last attempt, else asyncio.sleep(1)
AttemptFailed(c) ==
    /\ last_error' = [last_error EXCEPT ![c] = <<c, attempt[c]>>]
    /\ IF LastAttempt(c)
       THEN /\ pc' = [pc EXCEPT ![c] = "failed"]
            /\ gather_exc' = IF gather_exc = NoExc THEN ChunkError(c)
                             ELSE gather_exc
            /\ UNCHANGED sleeps
       ELSE /\ pc' = [pc EXCEPT ![c] = "sleep"]
            /\ sleeps' = [sleeps EXCEPT ![c] = @ + 1]
            /\ UNCHANGED gather_exc

\* edge_tts.Communicate(...).save(output_path) opens the part file for
\* writing when it starts; without the directory the open fails at once
EdgeStart(c) ==
    IF dir_exists
    THEN /\ part_files' = [part_files EXCEPT ![chunk_index[c]] =
                              [audio |-> c, complete |-> FALSE]]
         /\ pc' = [pc EXCEPT ![c] = "synth"]
         /\ sem' = sem - 1
         /\ UNCHANGED <<gather_exc, sleeps, last_error>>
    ELSE /\ AttemptFailed(c)
         /\ UNCHANGED <<part_files, sem>>

\* a chunk of lower index has not finished yet
EarlierPending(c) == \E d \in 0..(c - 1) : pc[d] # "done"

\* the task enters "async with sem" and calls generate_audio_chunk.  In
\* style mode ssml_communicate runs to its end inside this step (it blocks
\* the event loop); when it fails the call falls back to edge-tts.
Acquire(c) ==
    /\ loop_open
    /\ pc[c] = "wait"
    /\ SemFree
    /\ calls' = [calls EXCEPT ![c] = @ + 1]
    /\ IF use_ssml
       THEN \E ssml_ok \in BOOLEAN :
                IF ssml_ok /\ dir_exists
                THEN /\ part_files' = [part_files EXCEPT ![chunk_index[c]] =
                                          [audio |-> c, complete |-> TRUE]]
                     /\ pc' = [pc EXCEPT ![c] = "done"]
                     /\ out_of_order' = (out_of_order \/ EarlierPending(c))
                     /\ UNCHANGED <<sem, gather_exc, sleeps, last_error>>
                ELSE EdgeStart(c) /\ UNCHANGED out_of_order
       ELSE EdgeStart(c) /\ UNCHANGED out_of_order
    /\ UNCHANGED <<offJobVars, asmVars, inputVars, rowVars, apiVars, worker_pc,
                   loop_open, genVars, attempt, chunk_index, dir_exists,
                   manifest, final_audio>>

\* communicate.save completes: the part file is whole, the slot is released
SynthOk(c) ==
    /\ loop_open
    /\ pc[c] = "synth"
    /\ part_files' = IF dir_exists
                     THEN [part_files EXCEPT ![chunk_index[c]] =
                              [audio |-> c, complete |-> TRUE]]
                     ELSE part_files
    /\ pc' = [pc EXCEPT ![c] = "done"]
    /\ out_of_order' = (out_of_order \/ EarlierPending(c))
    /\ sem' = sem + 1
    /\ UNCHANGED <<offJobVars, asmVars, inputVars, rowVars, apiVars, worker_pc,
                   loop_open, genVars, gather_exc, attempt, chunk_index,
                   calls, sleeps, last_error, dir_exists, manifest,
                   final_audio>>

\* communicate.save raises: the slot is released, then the except clause
SynthFail(c) ==
    /\ loop_open
    /\ pc[c] = "synth"
    /\ sem' = sem + 1
    /\ AttemptFailed(c)
    /\ UNCHANGED <<offJobVars, asmVars, inputVars, rowVars, apiVars, worker_pc,
                   loop_open, genVars, attempt, chunk_index, calls,
                   out_of_order, fileVars>>

\* asyncio.sleep(1) is over: the next iteration of the for loop
Wake(c) ==
    /\ loop_open
    /\ pc[c] = "sleep"
    /\ IF attempt[c] < max_retries
       THEN /\ attempt' = [attempt EXCEPT ![c] = @ + 1]
            /\ pc' = [pc EXCEPT ![c] = "wait"]
       ELSE /\ pc' = [pc EXCEPT ![c] = "done"]
            /\ UNCHANGED attempt
    /\ UNCHANGED <<offJobVars, asmVars, inputVars, rowVars, apiVars, worker_pc,
                   loop_open, genVars, sem, gather_exc, chunk_index, calls,
                   sleeps, last_error, out_of_order, fileVars>>

(***************************************************************************)
(* _process_chunks_in_batches after the gather (tts_service.py:478-485)    *)
(***************************************************************************)
\* mutant: the wait ends with the first task that returns
GatherReturns_Any(bs) == \E c \in Batch(bs) : pc[c] = "done"

\* asyncio.gather returns when every task of the batch has returned
GatherReturns(bs) == \A c \in Batch(bs) : pc[c] = "done"

BatchDone ==
    /\ gen_pc = "gather"
    /\ gather_exc = NoExc
    /\ GatherReturns(batch_start)
    /\ processed' = processed + Cardinality(Batch(batch_start))
    /\ IF batch_start + batch_size < nchunks
       THEN /\ batch_start' = batch_start + batch_size
            /\ gen_pc' = "batch"
       ELSE /\ gen_pc' = "concat"
            /\ UNCHANGED batch_start
    /\ UNCHANGED <<offJobVars, asmVars, inputVars, rowVars, apiVars, worker_pc,
                   loop_open, exc, max_concurrency, taskVars, fileVars>>

\* asyncio.gather re-raises the first exception of a task at once; the
\* other tasks of the batch are not cancelled.  The exception leaves
\* generate_tts_async through the finally clause without another await.
GatherRaise ==
    /\ gen_pc = "gather"
    /\ gather_exc # NoExc
    /\ exc' = gather_exc
    /\ gen_pc' = "exit"
    /\ Finally
    /\ UNCHANGED <<offJobVars, asmVars, inputVars, rowVars, apiVars, worker_pc,
                   loop_open, max_concurrency, batch_start, processed,
                   taskVars, manifest, final_audio>>

(***************************************************************************)
(* concatenate_audio (tts_service.py:487-577)                              *)
(***************************************************************************)
\* with two or more parts: "copy", ffmpeg -c copy succeeds; "rejoin", it
\* exits with a failure (CalledProcessError) and the wave rejoin succeeds;
\* "first", both fail and the first part is copied; "missing", ffmpeg cannot
\* be launched (FileNotFoundError, which the except clause does not name)
AssemblyOutcomes == {"copy", "rejoin", "first", "missing"}

\* what concatenate_audio hands back on each way out: it has no return
\* statement with a value, and "raised" stands for an exception
ConcatReturn(outcome) ==
    IF outcome \in {"missing", "empty"} THEN "raised" ELSE None

\* lines 419-434: concatenate_audio, then the finally clause
ConcatenateAudio ==
    /\ gen_pc = "concat"
    /\ gen_pc' = "exit"
    /\ Finally
    /\ LET names == SortedParts
           audio == [i \in 1..Len(names) |-> AudioOf(names[i])]
       IN  IF names = <<>>
           THEN /\ exc' = [kind |-> "ValueError", chunk |-> -1,
                           attempts |-> 0, cause |-> <<>>]
                /\ assembly' = "empty"
                /\ concat_ret' = ConcatReturn("empty")
                /\ UNCHANGED <<manifest, final_audio>>
           ELSE IF Len(names) = 1
           THEN /\ final_audio' = audio
                /\ assembly' = "single"
                /\ concat_ret' = ConcatReturn("single")
                /\ UNCHANGED <<manifest, exc>>
           ELSE /\ manifest' = names
                /\ \E outcome \in AssemblyOutcomes :
                     /\ assembly' = outcome
                     /\ concat_ret' = ConcatReturn(outcome)
                     /\ CASE outcome = "copy" ->
                                final_audio' = audio /\ UNCHANGED exc
                          [] outcome = "rejoin" ->
                                final_audio' = audio /\ UNCHANGED exc
                          [] outcome = "first" ->
                                final_audio' = <<audio[1]>> /\ UNCHANGED exc
                          [] outcome = "missing" ->
                                /\ exc' = [kind |-> "FileNotFoundError",
                                           chunk |-> -1, attempts |-> 0,
                                           cause |-> <<>>]
                                /\ UNCHANGED final_audio
    /\ UNCHANGED <<offJobVars, inputVars, rowVars, apiVars, worker_pc,
                   loop_open, max_concurrency, batch_start, processed,
                   taskVars>>

(***************************************************************************)
(* The worker after run_until_complete (tasks/tts_tasks.py:108-162)        *)
(***************************************************************************)
\* tts_service.get_audio_duration(audio_path) (tasks/tts_tasks.py:112)
HasGetAudioDuration == "get_audio_duration" \in TTSServiceMethods

\* get_audio_url (tts_service.py:579-584)
get_audio_url == IF final_audio # <<>> THEN "/storage/audio" ELSE None

WorkerFinish ==
    /\ worker_pc = "generate"
    /\ gen_pc = "exit"
    /\ loop_open' = FALSE
    /\ worker_pc' = "done"
    /\ IF exc # NoExc
       THEN /\ status' = "failed"
            /\ error_message' = exc
            /\ UNCHANGED <<audio_url, processed_chunks>>
       ELSE IF ~HasGetAudioDuration
       THEN /\ status' = "failed"
            /\ error_message' = [kind |-> "AttributeError", chunk |-> -1,
                                 attempts |-> 0, cause |-> <<>>]
            /\ UNCHANGED <<audio_url, processed_chunks>>
       ELSE /\ status' = "completed"
            /\ audio_url' = get_audio_url
            /\ processed_chunks' = worker_count
            /\ UNCHANGED error_message
    /\ UNCHANGED <<offJobVars, asmVars, inputVars, total_chunks, apiVars, genVars,
                   taskVars, fileVars>>

Next ==
    \/ Cancel
    \/ WorkerStart
    \/ WorkerCount
    \/ GenStart
    \/ BatchStart
    \/ \E c \in Chunks : Acquire(c)
    \/ \E c \in Chunks : SynthOk(c)
    \/ \E c \in Chunks : SynthFail(c)
    \/ \E c \in Chunks : Wake(c)
    \/ BatchDone
    \/ GatherRaise
    \/ ConcatenateAudio
    \/ WorkerFinish

Spec == Init /\ [][Next]_vars

(***************************************************************************)
(* SpecSave: SSMLCommunicate.save (services/ssml_tts_service.py:95-169)    *)
(* A message is a record of its aiohttp type and its data; the data of a   *)
(* TEXT message is its utf-8 encoding, a sequence of bytes written as      *)
(* one-character strings.                                                  *)
(***************************************************************************)
MaxFrames == 2

CR == "\r"
LF == "\n"
CRLF == <<CR, LF>>

\* b"\r\n\r\n" (ssml_tts_service.py:150)
HeaderEnd == CRLF \o CRLF

\* b"Path" (ssml_tts_service.py:153)
PathKey == <<"P", "a", "t", "h">>

\* b"audio" (ssml_tts_service.py:155)
AudioValue == <<"a", "u", "d", "i", "o">>

PathAudioLine == PathKey \o <<":">> \o AudioValue
PathOtherLine == PathKey \o <<":">> \o <<"t">>
OtherKeyLine == <<"X", ":">> \o AudioValue
NoColonLine == PathKey

\* the header blocks of the messages tried
HeaderBlocks ==
    {<<>>, PathAudioLine, PathOtherLine, OtherKeyLine, NoColonLine,
     PathAudioLine \o CRLF \o PathOtherLine,
     PathOtherLine \o CRLF \o PathAudioLine,
     OtherKeyLine \o CRLF \o PathAudioLine,
     NoColonLine \o CRLF \o PathAudioLine}

\* the bodies of the messages tried
Bodies ==
    {<<>>, <<"d">>, <<CR, LF, "d">>, <<"d">> \o HeaderEnd \o <<"e">>}

\* the messages the endpoint may send; a close or the end of the stream
\* ends the iteration and is no message of it
Messages ==
    {[type |-> "TEXT", data |-> h \o HeaderEnd \o b] :
         h \in HeaderBlocks, b \in Bodies}
    \cup {[type |-> "TEXT", data |-> h] : h \in HeaderBlocks}
    \cup {[type |-> "BINARY", data |-> <<>>], [type |-> "ERROR", data |-> <<>>]}

\* pat occurs in data at the 0-based offset k
OccursAt(data, pat, k) ==
    /\ k + Len(pat) <= Len(data)
    /\ SubSeq(data, k + 1, k + Len(pat)) = pat

\* bytes.find: the lowest offset of pat in data, or -1
Find(data, pat) ==
    IF \E k \in 0..Len(data) : OccursAt(data, pat, k)
    THEN CHOOSE k \in 0..Len(data) :
             /\ OccursAt(data, pat, k)
             /\ \A j \in 0..(k - 1) : ~OccursAt(data, pat, j)
    ELSE -1

\* bytes.split(sep)
RECURSIVE BytesSplit(_, _)
BytesSplit(data, sep) ==
    LET k == Find(data, sep)
    IN  IF k = -1 THEN <<data>>
        ELSE <<SubSeq(data, 1, k)>>
                 \o BytesSplit(SubSeq(data, k + Len(sep) + 1, Len(data)), sep)

\* the loop of get_headers_and_data: the (key, value) pairs in the order
\* they are stored into the dict
RECURSIVE HeaderPairs(_)
HeaderPairs(lines) ==
    IF lines = <<>> THEN <<>>
    ELSE LET line == Head(lines)
             k == Find(line, <<":">>)
         IN  (IF k # -1
              THEN <<[key |-> SubSeq(line, 1, k),
                      value |-> SubSeq(line, k + 2, Len(line))]>>
              ELSE <<>>) \o HeaderPairs(Tail(lines))

\* dict.get(key, None) after the stores: the last value stored under key;
\* <<None>> stands for None among the byte strings
DictGet(pairs, key) ==
    LET at == {i \in 1..Len(pairs) : pairs[i].key = key}
    IN  IF at = {} THEN <<None>>
        ELSE pairs[CHOOSE i \in at : \A j \in at : j <= i].value

\* get_headers_and_data (ssml_tts_service.py:55-62)
get_headers_and_data(data, header_length) ==
    [headers |-> HeaderPairs(BytesSplit(PySlice(data, 0, header_length), CRLF)),
     data |-> PySlice(data, header_length + 2, Len(data))]

\* lines 150-155: the message is taken as audio
IsAudioFrame(m) ==
    /\ m.type = "TEXT"
    /\ Find(m.data, HeaderEnd) > 0
    /\ DictGet(get_headers_and_data(m.data, Find(m.data, HeaderEnd)).headers,
               PathKey) = AudioValue

InitSave ==
    /\ save_pc = "connect"
    /\ received = <<>>
    /\ audio_data = <<>>
    /\ audio_was_received = FALSE
    /\ output_file = NotWritten
    /\ save_exc = None
    /\ SplitIdle
    /\ JobIdle
    /\ ChunkIdle
    /\ TuneIdle
    /\ SsmlIdle
    /\ PresetIdle
    /\ CleanIdle
    /\ CountIdle

\* lines 131-144: the session, ws_connect and the two requests
SaveConnect ==
    /\ save_pc = "connect"
    /\ \E ok \in BOOLEAN :
           IF ok
           THEN save_pc' = "recv" /\ UNCHANGED save_exc
           ELSE save_pc' = "raised" /\ save_exc' = "ClientError"
    /\ UNCHANGED <<received, audio_data, audio_was_received, output_file>>
    /\ UNCHANGED offSaveVars

\* lines 146-162: one iteration of "async for received in websocket"
SaveReceive ==
    /\ save_pc = "recv"
    /\ Len(received) < MaxFrames
    /\ \E m \in Messages :
           /\ received' = Append(received, m)
           /\ IF m.type = "TEXT"
              THEN /\ IF IsAudioFrame(m)
                      THEN /\ audio_data' = audio_data \o
                                  get_headers_and_data(
                                      m.data, Find(m.data, HeaderEnd)).data
                           /\ audio_was_received' = TRUE
                      ELSE UNCHANGED <<audio_data, audio_was_received>>
                   /\ UNCHANGED <<save_pc, save_exc>>
              ELSE IF m.type = "ERROR"
              THEN /\ save_pc' = "raised"
                   /\ save_exc' = "RuntimeError: WebSocket error"
                   /\ UNCHANGED <<audio_data, audio_was_received>>
              ELSE UNCHANGED <<save_pc, save_exc, audio_data,
                               audio_was_received>>
    /\ UNCHANGED output_file
    /\ UNCHANGED offSaveVars

\* sock_read=60 (line 52): no message arrives in time
SaveReadTimeout ==
    /\ save_pc = "recv"
    /\ save_pc' = "raised"
    /\ save_exc' = "TimeoutError"
    /\ UNCHANGED <<received, audio_data, audio_was_received, output_file>>
    /\ UNCHANGED offSaveVars

\* mutant: the missing audio is not noticed
NoAudioReceived_Never == FALSE

\* if not audio_was_received (ssml_tts_service.py:164)
NoAudioReceived == ~audio_was_received

\* lines 164-169: the iteration has ended (close frame or end of stream)
SaveClose ==
    /\ save_pc = "recv"
    /\ IF NoAudioReceived
       THEN /\ save_pc' = "raised"
            /\ save_exc' = "RuntimeError: No audio data received"
            /\ UNCHANGED output_file
       ELSE /\ save_pc' = "returned"
            /\ output_file' = audio_data
            /\ UNCHANGED save_exc
    /\ UNCHANGED <<received, audio_data, audio_was_received>>
    /\ UNCHANGED offSaveVars

NextSave ==
    \/ SaveConnect
    \/ SaveReceive
    \/ SaveReadTimeout
    \/ SaveClose

SpecSave == InitSave /\ [][NextSave]_vars

(***************************************************************************)
(* Python string and integer primitives; a str is a sequence of            *)
(* one-character strings                                                   *)
(***************************************************************************)
DigitChars == <<"0", "1", "2", "3", "4", "5", "6", "7", "8", "9">>

IsDigit(c) == \E d \in 1..10 : DigitChars[d] = c

DigitOf(c) == (CHOOSE d \in 1..10 : DigitChars[d] = c) - 1

\* str(n) for n >= 0
NatToStr(n) ==
    LET d == DecimalDigits(n) IN [i \in 1..Len(d) |-> DigitChars[d[i] + 1]]

\* str(n), f"{n}"
IntToStr(n) == IF n < 0 THEN <<"-">> \o NatToStr(-n) ELSE NatToStr(n)

\* f"{n:+d}"
FormatSigned(n) == IF n < 0 THEN <<"-">> \o NatToStr(-n) ELSE <<"+">> \o NatToStr(n)

\* the value of a run of digits
RECURSIVE DigitsValue(_)
DigitsValue(d) ==
    IF d = <<>> THEN 0
    ELSE 10 * DigitsValue(SubSeq(d, 1, Len(d) - 1)) + DigitOf(d[Len(d)])

AllDigits(d) == d # <<>> /\ \A i \in 1..Len(d) : IsDigit(d[i])

\* s.startswith(('+', '-'))
StartsWithSign(s) == s # <<>> /\ s[1] \in {"+", "-"}

\* int(s): an optional sign and one or more digits, else ValueError
ParseInt(s) ==
    LET body == IF StartsWithSign(s) THEN Tail(s) ELSE s
    IN  IF AllDigits(body)
        THEN [ok |-> TRUE,
              value |-> IF s[1] = "-" THEN -DigitsValue(body)
                        ELSE DigitsValue(body)]
        ELSE [ok |-> FALSE, value |-> 0]

\* s.replace(old, new), old not empty
RECURSIVE StrReplace(_, _, _)
StrReplace(s, old, new) ==
    LET k == Find(s, old)
    IN  IF k = -1 THEN s
        ELSE SubSeq(s, 1, k) \o new
                 \o StrReplace(SubSeq(s, k + Len(old) + 1, Len(s)), old, new)

\* s.rstrip(chars)
RECURSIVE RStripChars(_, _)
RStripChars(s, chars) ==
    IF s # <<>> /\ s[Len(s)] \in chars
    THEN RStripChars(SubSeq(s, 1, Len(s) - 1), chars)
    ELSE s

\* the longest run of digits s starts with
RECURSIVE LeadingDigits(_)
LeadingDigits(s) ==
    IF s # <<>> /\ IsDigit(s[1]) THEN <<s[1]>> \o LeadingDigits(Tail(s))
    ELSE <<>>

\* re.match(r'([+-]?)(\d+)%', s): the groups, or no match
PercentMatch(s) ==
    LET sign == IF StartsWithSign(s) THEN <<s[1]>> ELSE <<>>
        rest == IF StartsWithSign(s) THEN Tail(s) ELSE s
        digits == LeadingDigits(rest)
    IN  IF /\ digits # <<>>
           /\ Len(rest) > Len(digits)
           /\ rest[Len(digits) + 1] = "%"
        THEN [ok |-> TRUE, sign |-> sign, digits |-> digits]
        ELSE [ok |-> FALSE, sign |-> <<>>, digits |-> <<>>]

(***************************************************************************)
(* SpecChunk: one process_chunk task with generate_audio_chunk in detail   *)
(***************************************************************************)
\* voice.name of the style configuration and the argument voice
ConfigVoice == "zh-CN-YunxiNeural"

ArgVoice == "zh-CN-XiaoxiaoNeural"

\* values of pace.base_rate and of the argument rate
RateStrings ==
    { <<"-", "1", "5", "%">>, <<"+", "2", "0", "%">>, <<"0", "%">>,
      <<"1", "0", "%">>, <<"f", "a", "s", "t">>, <<>> }

\* values of mood.pitch and of the argument pitch
PitchStrings ==
    { <<"+", "1", "%">>, <<"-", "3", "%">>, <<"0", "%">>, <<"0", "H", "z">>,
      <<"-", "2", "0", "H", "z">>, <<"5", "H", "z">>, <<"h", "i", "g", "h">> }

DefaultConfig ==
    [voice |-> ConfigVoice, base_rate |-> <<"-", "1", "5", "%">>,
     pitch |-> <<"+", "1", "%">>]

DefaultArgs ==
    [voice |-> ArgVoice, rate |-> <<"0", "%">>, pitch |-> <<"0", "H", "z">>]

\* the fallback's rate_param
FallbackRate(base_rate) ==
    IF base_rate = <<"0", "%">> THEN <<>>
    ELSE IF base_rate # <<>> /\ ~StartsWithSign(base_rate)
    THEN LET n == ParseInt(RStripChars(base_rate, {"%"}))
         IN  IF ~n.ok THEN <<>>
             ELSE IF n.value > 0 THEN <<"+">> \o base_rate
             ELSE base_rate
    ELSE base_rate

\* the fallback's pitch_param
FallbackPitch(pitch) ==
    IF pitch = <<"0", "H", "z">> \/ pitch = <<"0", "%">> THEN <<>>
    ELSE IF pitch # <<>>
    THEN LET clean_pitch == StrReplace(StrReplace(pitch, <<"%">>, <<>>),
                                       <<"H", "z">>, <<>>)
             n == ParseInt(clean_pitch)
             num_value == IF Find(pitch, <<"%">>) # -1 THEN n.value * 2
                          ELSE n.value
         IN  IF ~n.ok THEN <<>>
             ELSE IF num_value > 0
             THEN <<"+">> \o IntToStr(num_value) \o <<"H", "z">>
             ELSE IF num_value < 0 THEN IntToStr(num_value) \o <<"H", "z">>
             ELSE <<>>
    ELSE pitch

\* rate and pitch as the legacy branch passes them on; unit is "%" or "Hz"
LegacyParam(value, zero, unit_chars) ==
    IF value = zero THEN <<>>
    ELSE IF value # <<>> /\ ~StartsWithSign(value)
    THEN LET n == ParseInt(RStripChars(value, unit_chars))
         IN  IF ~n.ok THEN <<>>
             ELSE IF n.value > 0 THEN <<"+">> \o value
             ELSE IF n.value < 0 THEN value
             ELSE <<>>
    ELSE value

LegacyRate(rate) == LegacyParam(rate, <<"0", "%">>, {"%"})

LegacyPitch(pitch) == LegacyParam(pitch, <<"0", "H", "z">>, {"H", "z"})

\* ssml_communicate(final_ssml, output_path): the markup carries the
\* configuration
SsmlCall(config) ==
    [api |-> "ssml_communicate", input |-> "final_ssml", voice |-> config.voice,
     rate |-> config.base_rate, pitch |-> config.pitch]

\* edge_tts.Communicate(text=text, voice=config_obj.voice.name, ...)
FallbackCall_Markup(config) ==
    [api |-> "edge_tts", input |-> "final_ssml", voice |-> config.voice,
     rate |-> FallbackRate(config.base_rate),
     pitch |-> FallbackPitch(config.pitch)]

FallbackCall(config) ==
    [api |-> "edge_tts", input |-> "text", voice |-> config.voice,
     rate |-> FallbackRate(config.base_rate),
     pitch |-> FallbackPitch(config.pitch)]

\* edge_tts.Communicate(text=text, voice=voice, rate=rate, pitch=pitch)
LegacyCall(args) ==
    [api |-> "edge_tts", input |-> "text", voice |-> args.voice,
     rate |-> LegacyRate(args.rate), pitch |-> LegacyPitch(args.pitch)]

\* the audio a call streams, in two pieces
Audio(call) == <<[of |-> call, piece |-> 1], [of |-> call, piece |-> 2]>>

\* open(output_file, "wb")
OpenWB_Append(content) == content

OpenWB(content) == <<>>

Logged(call, outcome) ==
    [attempt |-> ck_attempt, call |-> call, outcome |-> outcome]

\* the last call of the log gets its outcome
Settle(log, outcome) ==
    [log EXCEPT ![Len(log)] = [@ EXCEPT !.outcome = outcome]]

InitChunk ==
    /\ ck_use_ssml \in BOOLEAN
    /\ ck_config \in [voice : {ConfigVoice}, base_rate : RateStrings,
                      pitch : PitchStrings]
    /\ ck_args \in [voice : {ArgVoice}, rate : RateStrings,
                    pitch : PitchStrings]
    /\ ck_use_ssml => ck_args = DefaultArgs
    /\ ~ck_use_ssml => ck_config = DefaultConfig
    /\ ck_pc = "attempt"
    /\ ck_attempt = 1
    /\ ck_calls = <<>>
    /\ ck_file = <<>>
    /\ ck_failed = 0
    /\ ck_exc = None
    /\ SplitIdle
    /\ JobIdle
    /\ SaveIdle
    /\ TuneIdle
    /\ SsmlIdle
    /\ PresetIdle
    /\ CleanIdle
    /\ CountIdle

\* one pass of the loop up to the first await of generate_audio_chunk: in
\* style mode the protocol client runs to its end, and on its failure the
\* fallback call is built
ChunkAttempt ==
    /\ ck_pc = "attempt"
    /\ IF ck_use_ssml
       THEN \E ok \in BOOLEAN :
                IF ok
                THEN /\ ck_calls' = Append(ck_calls,
                                           Logged(SsmlCall(ck_config), "ok"))
                     /\ ck_file' = OpenWB(ck_file)
                                       \o Audio(SsmlCall(ck_config))
                     /\ ck_pc' = "returned"
                ELSE /\ ck_calls' =
                            ck_calls
                                \o <<Logged(SsmlCall(ck_config), "failed"),
                                     Logged(FallbackCall(ck_config),
                                            "pending")>>
                     /\ ck_file' = ck_file
                     /\ ck_pc' = "save"
       ELSE /\ ck_calls' = Append(ck_calls,
                                  Logged(LegacyCall(ck_args), "pending"))
            /\ ck_file' = ck_file
            /\ ck_pc' = "save"
    /\ UNCHANGED <<ck_use_ssml, ck_config, ck_args, ck_attempt, ck_failed,
                   ck_exc>>
    /\ UNCHANGED offChunkVars

\* communicate.save opens the part file
ChunkSaveOpen ==
    /\ ck_pc = "save"
    /\ ck_file' = OpenWB(ck_file)
    /\ ck_pc' = "stream"
    /\ UNCHANGED <<ck_use_ssml, ck_config, ck_args, ck_attempt, ck_calls,
                   ck_failed, ck_exc>>
    /\ UNCHANGED offChunkVars

\* communicate.save writes the first audio message
ChunkSaveWrite ==
    /\ ck_pc = "stream"
    /\ ck_file' = Append(ck_file, Audio(ck_calls[Len(ck_calls)].call)[1])
    /\ ck_pc' = "streaming"
    /\ UNCHANGED <<ck_use_ssml, ck_config, ck_args, ck_attempt, ck_calls,
                   ck_failed, ck_exc>>
    /\ UNCHANGED offChunkVars

\* communicate.save writes what is left and returns; process_chunk returns
ChunkSaveDone ==
    /\ ck_pc \in {"stream", "streaming"}
    /\ ck_file' = ck_file \o (IF ck_pc = "stream"
                               THEN Audio(ck_calls[Len(ck_calls)].call)
                               ELSE Tail(Audio(ck_calls[Len(ck_calls)].call)))
    /\ ck_calls' = Settle(ck_calls, "ok")
    /\ ck_pc' = "returned"
    /\ UNCHANGED <<ck_use_ssml, ck_config, ck_args, ck_attempt, ck_failed,
                   ck_exc>>
    /\ UNCHANGED offChunkVars

\* edge_tts.Communicate or communicate.save raises: generate_audio_chunk
\* raises RuntimeError and the except clause of process_chunk runs
ChunkSaveRaise ==
    /\ ck_pc \in {"save", "stream", "streaming"}
    /\ ck_calls' = Settle(ck_calls, "failed")
    /\ ck_failed' = ck_failed + 1
    /\ IF ck_attempt = max_retries
       THEN /\ ck_pc' = "raised"
            /\ ck_exc' = "RuntimeError"
       ELSE /\ ck_pc' = "sleep"
            /\ ck_exc' = ck_exc
    /\ UNCHANGED <<ck_use_ssml, ck_config, ck_args, ck_attempt, ck_file>>
    /\ UNCHANGED offChunkVars

\* asyncio.sleep(1) is over: the next pass of the loop
ChunkWake ==
    /\ ck_pc = "sleep"
    /\ ck_attempt' = ck_attempt + 1
    /\ ck_pc' = "attempt"
    /\ UNCHANGED <<ck_use_ssml, ck_config, ck_args, ck_calls, ck_file,
                   ck_failed, ck_exc>>
    /\ UNCHANGED offChunkVars

NextChunk ==
    \/ ChunkAttempt
    \/ ChunkSaveOpen
    \/ ChunkSaveWrite
    \/ ChunkSaveDone
    \/ ChunkSaveRaise
    \/ ChunkWake

SpecChunk == InitChunk /\ [][NextChunk]_vars

(***************************************************************************)
(* SpecTune: the two tuning functions on their own                         *)
(***************************************************************************)
\* largest value of settings.concurrency tried
MaxBase == 8

\* values of settings.max_chars_per_chunk tried, the default among them
BaseChunkSizes == {300, 500, 1500, 2400}

\* readings and text lengths on both sides of each threshold
TuneMemReadings == {50, 70, 71, 85}

TuneTextLengths == {1000, 50000, 50001, 100000, 100001}

InitTune ==
    /\ tn_base_chunk_size \in BaseChunkSizes
    /\ tn_base_concurrency \in 1..MaxBase
    /\ tn_memory_usage \in TuneMemReadings
    /\ tn_text_length \in TuneTextLengths
    /\ tn_chunk_size = NotCalled
    /\ tn_concurrency = NotCalled
    /\ SplitIdle
    /\ JobIdle
    /\ SaveIdle
    /\ ChunkIdle
    /\ SsmlIdle
    /\ PresetIdle
    /\ CleanIdle
    /\ CountIdle

CallOptimalChunkSize ==
    /\ ~tn_chunk_size.called
    /\ tn_chunk_size' = OptimalChunkSize(tn_base_chunk_size, tn_text_length,
                                         tn_memory_usage)
    /\ UNCHANGED <<tn_base_chunk_size, tn_base_concurrency, tn_memory_usage,
                   tn_text_length, tn_concurrency>>
    /\ UNCHANGED offTuneVars

CallOptimalConcurrency ==
    /\ ~tn_concurrency.called
    /\ tn_concurrency' = OptimalConcurrency(tn_base_concurrency,
                                            tn_text_length, tn_memory_usage)
    /\ UNCHANGED <<tn_base_chunk_size, tn_base_concurrency, tn_memory_usage,
                   tn_text_length, tn_chunk_size>>
    /\ UNCHANGED offTuneVars

NextTune ==
    \/ CallOptimalChunkSize
    \/ CallOptimalConcurrency

SpecTune == InitTune /\ [][NextTune]_vars

(***************************************************************************)
(* SpecSsml: SimpleSSMLGenerator.generate_ssml.  The document is a         *)
(* sequence of tokens: a character of content, or a start tag, end tag or  *)
(* empty element with its attributes as (name, value) pairs.               *)
(***************************************************************************)
MaxText == 4

SsmlAlphabet == Alphabet \cup {"<", "&"}

SsmlTexts == UNION {[1..n -> SsmlAlphabet] : n \in 0..MaxText}

\* r'([。！？.!?])'
ssml_sentence_endings == {CJK_STOP, "uFF01", "uFF1F", ".", "!", "?"}

CharsOf(s) == [i \in 1..Len(s) |-> [kind |-> "char", name |-> s[i], attrs |-> <<>>]]

StartTag(name, attrs) == [kind |-> "start", name |-> name, attrs |-> attrs]

EndTag(name) == [kind |-> "end", name |-> name, attrs |-> <<>>]

\* <break time="..."/>
Break(time) == [kind |-> "empty", name |-> "break", attrs |-> <<<<"time", time>>>>]

\* the five replace calls of _preprocess_text, on one character
EscapeXml(c) ==
    CASE c = "&" -> <<"&", "a", "m", "p", ";">>
      [] c = "<" -> <<"&", "l", "t", ";">>
      [] c = ">" -> <<"&", "g", "t", ";">>
      [] c = "\"" -> <<"&", "q", "u", "o", "t", ";">>
      [] c = "'" -> <<"&", "a", "p", "o", "s", ";">>
      [] OTHER -> <<c>>

RECURSIVE EscapeAll(_)
EscapeAll(s) == IF s = <<>> THEN <<>> ELSE EscapeXml(Head(s)) \o EscapeAll(Tail(s))

\* the end of the run of characters of cls that starts at p
RECURSIVE RunEnd(_, _, _)
RunEnd(s, cls, p) ==
    IF p <= Len(s) /\ s[p] \in cls THEN RunEnd(s, cls, p + 1) ELSE p

\* re.sub of a run of at least least characters of cls by repl, from p on
RECURSIVE SubRuns(_, _, _, _, _)
SubRuns(s, cls, least, repl, p) ==
    IF p > Len(s) THEN <<>>
    ELSE LET e == RunEnd(s, cls, p)
         IN  IF e - p >= least
             THEN repl \o SubRuns(s, cls, least, repl, e)
             ELSE IF e > p
             THEN SubSeq(s, p, e - 1) \o SubRuns(s, cls, least, repl, e)
             ELSE <<s[p]>> \o SubRuns(s, cls, least, repl, p + 1)

preprocess_text(s) ==
    LET escaped == EscapeAll(s)
        unix == StrReplace(StrReplace(escaped, <<"\r", "\n">>, <<"\n">>),
                           <<"\r">>, <<"\n">>)
        lines == SubRuns(unix, {"\n"}, 3, <<"\n", "\n">>, 1)
        blanks == SubRuns(lines, {" ", "\t"}, 1, <<" ">>, 1)
    IN  Strip(blanks)

\* [p.strip() for p in ps if p.strip()]
RECURSIVE StripNonEmpty(_)
StripNonEmpty(ps) ==
    IF ps = <<>> THEN <<>>
    ELSE IF Strip(Head(ps)) # <<>>
    THEN <<Strip(Head(ps))>> \o StripNonEmpty(Tail(ps))
    ELSE StripNonEmpty(Tail(ps))

split_paragraphs(s) == StripNonEmpty(BytesSplit(s, <<"\n", "\n">>))

\* the loop of _split_long_sentence over the comma-separated parts
RECURSIVE CommaLoop(_, _, _, _, _)
CommaLoop(parts, i, current, done, max_sentence_len) ==
    IF i > Len(parts)
    THEN IF current # <<>> THEN Append(done, Strip(current)) ELSE done
    ELSE IF Len(current) + Len(parts[i]) + 1 <= max_sentence_len
    THEN CommaLoop(parts, i + 1,
                   IF current # <<>> THEN current \o parts[i] \o <<CJK_COMMA>>
                   ELSE parts[i],
                   done, max_sentence_len)
    ELSE CommaLoop(parts, i + 1, parts[i],
                   IF current # <<>> THEN Append(done, Strip(current))
                   ELSE done,
                   max_sentence_len)

\* sentence[i:i + n] for i in range(0, len(sentence), n), n >= 1
RECURSIVE Slices(_, _)
Slices(sentence, n) ==
    IF sentence = <<>> THEN <<>>
    ELSE <<PySlice(sentence, 0, n)>>
             \o Slices(PySlice(sentence, n, Len(sentence)), n)

split_long_sentence(sentence, max_sentence_len) ==
    IF Find(sentence, <<CJK_COMMA>>) # -1
    THEN SelectSeq(CommaLoop(BytesSplit(sentence, <<CJK_COMMA>>), 1, <<>>,
                             <<>>, max_sentence_len),
                   LAMBDA r : r # <<>>)
    ELSE Slices(sentence, max_sentence_len)

\* the loop of _split_sentences; i is the 0-based index into the split
RECURSIVE SentenceLoop(_, _, _)
SentenceLoop(parts, i, max_sentence_len) ==
    IF i >= Len(parts) THEN <<>>
    ELSE LET sentence == Strip(IF i + 1 < Len(parts)
                               THEN parts[i + 1] \o parts[i + 2]
                               ELSE parts[i + 1])
             rest == SentenceLoop(parts, i + 2, max_sentence_len)
         IN  IF sentence = <<>> THEN rest
             ELSE IF Len(sentence) > max_sentence_len
             THEN split_long_sentence(sentence, max_sentence_len) \o rest
             ELSE <<sentence>> \o rest

split_sentences(s, max_sentence_len) ==
    SentenceLoop(ReSplitCapture(s, ssml_sentence_endings, 1, 1), 0,
                 max_sentence_len)

\* a delta of _calculate_rate applied to base_value
ApplyDelta(base_value, delta) ==
    LET delta_match == PercentMatch(delta)
    IN  IF delta = <<>> \/ ~delta_match.ok THEN base_value
        ELSE IF delta_match.sign = <<"-">>
        THEN base_value - DigitsValue(delta_match.digits)
        ELSE base_value + DigitsValue(delta_match.digits)

calculate_rate(config, is_opening, is_ending) ==
    LET rate_match == PercentMatch(config.base_rate)
        base_value == IF rate_match.sign = <<"+">>
                      THEN DigitsValue(rate_match.digits)
                      ELSE -DigitsValue(rate_match.digits)
        opened == IF is_opening THEN ApplyDelta(base_value, config.opening_delta)
                  ELSE base_value
        ended == IF is_ending THEN ApplyDelta(opened, config.ending_delta)
                 ELSE opened
    IN  IF ~rate_match.ok THEN config.base_rate
        ELSE FormatSigned(ended) \o <<"%">>

\* _insert_sentence_breaks
RECURSIVE insert_sentence_breaks(_, _)
insert_sentence_breaks(sentence, config) ==
    IF sentence = <<>> THEN <<>>
    ELSE CharsOf(<<Head(sentence)>>)
             \o (IF Head(sentence) \in {CJK_COMMA, "u3001"}
                 THEN <<Break(config.comma_pause)>> ELSE <<>>)
             \o insert_sentence_breaks(Tail(sentence), config)

process_sentence(sentence, config, is_opening, is_ending) ==
    LET rate == calculate_rate(config, is_opening, is_ending)
        prosody_attrs ==
            <<<<"rate", rate>>>>
                \o (IF config.pitch # <<>> /\ config.pitch # <<"0", "%">>
                    THEN <<<<"pitch", config.pitch>>>> ELSE <<>>)
    IN  <<StartTag("prosody", prosody_attrs)>>
            \o insert_sentence_breaks(sentence, config)
            \o <<EndTag("prosody")>>

\* the loop of _process_paragraph from the sentence of 1-based index i
RECURSIVE ParagraphLoop(_, _, _, _, _)
ParagraphLoop(sentences, i, config, is_first, is_last) ==
    IF i > Len(sentences) THEN <<>>
    ELSE (IF i > 1 THEN <<Break(config.sentence_pause)>> ELSE <<>>)
             \o process_sentence(sentences[i], config, is_first /\ i = 1,
                                 is_last /\ i = Len(sentences))
             \o ParagraphLoop(sentences, i + 1, config, is_first, is_last)

process_paragraph(paragraph, config, is_first, is_last) ==
    ParagraphLoop(split_sentences(paragraph, config.max_sentence_len), 1,
                  config, is_first, is_last)

\* the loop of generate_ssml from the paragraph of 1-based index i
RECURSIVE DocumentLoop(_, _, _)
DocumentLoop(paragraphs, i, config) ==
    IF i > Len(paragraphs) THEN <<>>
    ELSE (IF i > 1 THEN <<Break(config.paragraph_pause)>> ELSE <<>>)
             \o process_paragraph(paragraphs[i], config, i = 1,
                                  i = Len(paragraphs))
             \o DocumentLoop(paragraphs, i + 1, config)

generate_ssml(config, s) ==
    <<StartTag("speak", <<<<"version", <<"1.0">>>>>>),
      StartTag("voice", <<<<"name", <<config.voice_name>>>>>>)>>
        \o DocumentLoop(split_paragraphs(preprocess_text(s)), 1, config)
        \o <<EndTag("voice"), EndTag("speak")>>

\* BEDTIME_BALANCED with a short max_sentence_len
SmallConfig(max_sentence_len) ==
    [voice_name |-> ArgVoice,
     base_rate |-> <<"-", "1", "5", "%">>,
     opening_delta |-> <<"-", "3", "%">>,
     ending_delta |-> <<"-", "3", "%">>,
     pitch |-> <<"+", "1", "%">>,
     comma_pause |-> <<"350ms">>,
     sentence_pause |-> <<"700ms">>,
     paragraph_pause |-> <<"1200ms">>,
     max_sentence_len |-> max_sentence_len]

SentenceLens == {1, 3}

SsmlConfigs ==
    [voice_name : {ArgVoice},
     base_rate : {<<"-", "1", "5", "%">>, <<"+", "2", "0", "%">>,
                  <<"1", "5", "%">>, <<"s", "l", "o", "w">>},
     opening_delta : {<<"-", "5", "%">>, <<"+", "1", "0", "%">>, <<>>},
     ending_delta : {<<"-", "5", "%">>, <<"5", "%">>, <<>>},
     pitch : {<<"+", "1", "%">>, <<"0", "%">>},
     comma_pause : {<<"350ms">>},
     sentence_pause : {<<"700ms">>},
     paragraph_pause : {<<"1200ms">>},
     max_sentence_len : SentenceLens]

\* texts of one, two and three sentences and of two paragraphs
ShapedTexts ==
    { <<LETTER>>, <<LETTER, CJK_STOP, LETTER>>, <<LETTER, LETTER, LETTER>>,
      <<LETTER, NEWLINE, NEWLINE, LETTER>>, <<LETTER, CJK_COMMA, LETTER>>,
      <<LETTER, "u3001", LETTER>> }

\* values of structure.comma_pause
CommaPauses == {<<"350ms">>, <<"500ms">>}

InitSsml ==
    /\ \/ /\ sg_text \in SsmlTexts
          /\ sg_config \in {SmallConfig(n) : n \in SentenceLens}
       \/ /\ sg_text \in ShapedTexts
          /\ sg_config \in SsmlConfigs
    /\ sg_ssml = NoDocument
    /\ sg_other_pause \in CommaPauses
    /\ sg_again = NoDocument
    /\ SplitIdle
    /\ JobIdle
    /\ SaveIdle
    /\ ChunkIdle
    /\ TuneIdle
    /\ PresetIdle
    /\ CleanIdle
    /\ CountIdle

CallGenerateSsml ==
    /\ sg_ssml = NoDocument
    /\ sg_ssml' = generate_ssml(sg_config, sg_text)
    /\ UNCHANGED <<sg_text, sg_config, sg_other_pause, sg_again>>
    /\ UNCHANGED offSsmlVars

\* a second call with the same text and a configuration that is sg_config
\* but for structure.comma_pause
CallGenerateSsmlAgain ==
    /\ sg_ssml # NoDocument
    /\ sg_again = NoDocument
    /\ sg_again' = generate_ssml(
                       [sg_config EXCEPT !.comma_pause = sg_other_pause],
                       sg_text)
    /\ UNCHANGED <<sg_text, sg_config, sg_ssml, sg_other_pause>>
    /\ UNCHANGED offSsmlVars

NextSsml ==
    \/ CallGenerateSsml
    \/ CallGenerateSsmlAgain

SpecSsml == InitSsml /\ [][NextSsml]_vars

(***************************************************************************)
(* SpecPreset: PRESET_CONFIGS and create_ssml_config_from_preset.  A       *)
(* configuration is written flat, one field per dataclass field.           *)
(***************************************************************************)
MaxOverrides == 2

BEDTIME_SOFT ==
    [name |-> <<"BEDTIME_SOFT">>, description |-> <<"BEDTIME_SOFT">>,
     voice_name |-> "zh-CN-XiaoxiaoNeural", style |-> "gentle",
     fallback |-> None, role |-> "youngadultfemale",
     base_rate |-> "-25%", opening_delta |-> "-5%", ending_delta |-> "-5%",
     transition_duration |-> "500ms",
     pitch |-> "-5%", emphasis |-> "none", breathing |-> TRUE,
     thinking_pause |-> TRUE, volume |-> "soft",
     comma_pause |-> "500ms", sentence_pause |-> "1000ms",
     paragraph_pause |-> "2000ms", max_sentence_len |-> 120,
     auto_split_long_sentence |-> TRUE, chapter_pause |-> "3000ms",
     dialog_pause |-> "800ms"]

BEDTIME_BALANCED ==
    [name |-> <<"BEDTIME_BALANCED">>, description |-> <<"BEDTIME_BALANCED">>,
     voice_name |-> "zh-CN-XiaoxiaoNeural", style |-> "calm",
     fallback |-> None, role |-> None,
     base_rate |-> "-15%", opening_delta |-> "-3%", ending_delta |-> "-3%",
     transition_duration |-> "300ms",
     pitch |-> "+1%", emphasis |-> "moderate", breathing |-> TRUE,
     thinking_pause |-> FALSE, volume |-> None,
     comma_pause |-> "350ms", sentence_pause |-> "700ms",
     paragraph_pause |-> "1200ms", max_sentence_len |-> 150,
     auto_split_long_sentence |-> TRUE, chapter_pause |-> "2000ms",
     dialog_pause |-> "500ms"]

\* two entries of the table stand for all
PRESET_CONFIGS ==
    [n \in {"BEDTIME_SOFT", "BEDTIME_BALANCED"} |->
        IF n = "BEDTIME_SOFT" THEN BEDTIME_SOFT ELSE BEDTIME_BALANCED]

\* the keyword each overrides.get reads, and the field it fills
OverrideField ==
    [voice |-> "voice_name", style |-> "style", role |-> "role",
     rate |-> "base_rate", opening_delta |-> "opening_delta",
     ending_delta |-> "ending_delta", pitch |-> "pitch",
     emphasis |-> "emphasis", breathing |-> "breathing",
     thinking_pause |-> "thinking_pause", volume |-> "volume",
     comma_pause |-> "comma_pause", sentence_pause |-> "sentence_pause",
     paragraph_pause |-> "paragraph_pause",
     max_sentence_len |-> "max_sentence_len"]

OverrideKeys == DOMAIN OverrideField

\* a value for each keyword that neither preset has
OverrideValue(key) ==
    CASE key = "voice" -> "zh-CN-YunxiNeural"
      [] key = "rate" -> "-20%"
      [] key = "pitch" -> "0%"
      [] key = "breathing" -> FALSE
      [] key = "thinking_pause" -> key = "breathing"
      [] key = "max_sentence_len" -> 99
      [] OTHER -> "override"

\* the keyword arguments of a call
OverrideDicts ==
    {[k \in K |-> OverrideValue(k)] :
        K \in {K \in SUBSET OverrideKeys : Cardinality(K) <= MaxOverrides}}

\* overrides.get(key, default)
OverridesGet_Default(overrides, key, default) == default

OverridesGet(overrides, key, default) ==
    IF key \in DOMAIN overrides THEN overrides[key] ELSE default

NoConfig == [kind |-> "none", config |-> None]

create_ssml_config_from_preset(presets, preset_name, overrides) ==
    IF preset_name \notin DOMAIN presets
    THEN [kind |-> "ValueError", config |-> None]
    ELSE LET base_config == presets[preset_name]
         IN  [kind |-> "config",
              config |->
                [name |-> <<"CUSTOM">> \o base_config.name,
                 description |-> <<"CUSTOM">> \o base_config.description,
                 voice_name |-> OverridesGet(overrides, "voice", base_config.voice_name),
                 style |-> OverridesGet(overrides, "style", base_config.style),
                 role |-> OverridesGet(overrides, "role", base_config.role),
                 fallback |-> base_config.fallback,
                 base_rate |-> OverridesGet(overrides, "rate", base_config.base_rate),
                 opening_delta |-> OverridesGet(overrides, "opening_delta", base_config.opening_delta),
                 ending_delta |-> OverridesGet(overrides, "ending_delta", base_config.ending_delta),
                 transition_duration |-> base_config.transition_duration,
                 pitch |-> OverridesGet(overrides, "pitch", base_config.pitch),
                 emphasis |-> OverridesGet(overrides, "emphasis", base_config.emphasis),
                 breathing |-> OverridesGet(overrides, "breathing", base_config.breathing),
                 thinking_pause |-> OverridesGet(overrides, "thinking_pause", base_config.thinking_pause),
                 volume |-> OverridesGet(overrides, "volume", base_config.volume),
                 comma_pause |-> OverridesGet(overrides, "comma_pause", base_config.comma_pause),
                 sentence_pause |-> OverridesGet(overrides, "sentence_pause", base_config.sentence_pause),
                 paragraph_pause |-> OverridesGet(overrides, "paragraph_pause", base_config.paragraph_pause),
                 max_sentence_len |-> OverridesGet(overrides, "max_sentence_len", base_config.max_sentence_len),
                 auto_split_long_sentence |-> base_config.auto_split_long_sentence,
                 chapter_pause |-> base_config.chapter_pause,
                 dialog_pause |-> base_config.dialog_pause]]

\* preset names a caller passes, one of them not in the table
PresetNames == {"BEDTIME_SOFT", "BEDTIME_BALANCED", "UNKNOWN"}

InitPreset ==
    /\ pr_presets = PRESET_CONFIGS
    /\ pr_preset_name = None
    /\ pr_overrides = <<>>
    /\ pr_result = NoConfig
    /\ SplitIdle
    /\ JobIdle
    /\ SaveIdle
    /\ ChunkIdle
    /\ TuneIdle
    /\ SsmlIdle
    /\ CleanIdle
    /\ CountIdle

CallCreateConfig ==
    /\ \E preset_name \in PresetNames, overrides \in OverrideDicts :
           /\ pr_preset_name' = preset_name
           /\ pr_overrides' = overrides
           /\ pr_result' = create_ssml_config_from_preset(pr_presets,
                                                          preset_name, overrides)
    /\ UNCHANGED pr_presets
    /\ UNCHANGED offPresetVars

\* generate_ssml(text, config) of the module with a preset name: the lookup
CallGenerateWithPreset ==
    /\ \E preset_name \in PresetNames :
           /\ pr_preset_name' = preset_name
           /\ pr_result' = IF preset_name \notin DOMAIN pr_presets
                           THEN [kind |-> "ValueError", config |-> None]
                           ELSE [kind |-> "rendered",
                                 config |-> pr_presets[preset_name]]
    /\ pr_overrides' = <<>>
    /\ UNCHANGED pr_presets
    /\ UNCHANGED offPresetVars

NextPreset ==
    \/ CallCreateConfig
    \/ CallGenerateWithPreset

SpecPreset == InitPreset /\ [][NextPreset]_vars

(***************************************************************************)
(* SpecClean: TTSService.clean_text (tts_service.py:38-47)                 *)
(* LETTER stands for every character of the classes u4e00-u9fff, A-Z     *)
(* and a-z.                                                                *)
(***************************************************************************)
\* the character class of the first re.sub (line 41); "u0060" is the
\* grave accent
MarkdownChars ==
    {"#", ">", "*", "u0060", "_", "~", "-", "+", "=", "[", "]", "(", ")", "<"}

\* the punctuation the class of the third re.sub names (line 45)
KeptPunctuation ==
    {CJK_COMMA, CJK_STOP, "uFF01", "uFF1F", ",", ".", "!", "?", "uFF1B", ";",
     ":", "u3001"}

\* a character outside the negated class of the third re.sub
KeptChar(c) ==
    \/ c = LETTER
    \/ c \in {DigitChars[i] : i \in 1..Len(DigitChars)}
    \/ c \in KeptPunctuation
    \/ IsSpace(c)

\* the second re.sub (line 43): a run of white space becomes one space
RECURSIVE CollapseSpaces(_)
CollapseSpaces(t) ==
    IF t = <<>> THEN <<>>
    ELSE IF IsSpace(Head(t)) THEN <<SPACE>> \o CollapseSpaces(LStrip(t))
    ELSE <<Head(t)>> \o CollapseSpaces(Tail(t))

clean_text(t) ==
    LET t1 == SelectSeq(t, LAMBDA c : c \notin MarkdownChars)
        t2 == CollapseSpaces(t1)
        t3 == SelectSeq(t2, KeptChar)
    IN  Strip(t3)

\* "#" is dropped by the first re.sub, "@" by the third only
CleanAlphabet == {LETTER, SPACE, NEWLINE, "#", "@"}

CleanTexts == UNION {[1..n -> CleanAlphabet] : n \in 0..MaxLen}

InitClean ==
    /\ cl_text \in CleanTexts
    /\ cl_once = NotCleaned
    /\ cl_twice = NotCleaned
    /\ SplitIdle
    /\ JobIdle
    /\ SaveIdle
    /\ ChunkIdle
    /\ TuneIdle
    /\ SsmlIdle
    /\ PresetIdle
    /\ CountIdle

CallCleanText ==
    /\ cl_once = NotCleaned
    /\ cl_once' = clean_text(cl_text)
    /\ UNCHANGED <<cl_text, cl_twice>>
    /\ UNCHANGED offCleanVars

\* clean_text applied to its own output
CallCleanTextAgain ==
    /\ cl_once # NotCleaned
    /\ cl_twice = NotCleaned
    /\ cl_twice' = clean_text(cl_once)
    /\ UNCHANGED <<cl_text, cl_once>>
    /\ UNCHANGED offCleanVars

NextClean == CallCleanText \/ CallCleanTextAgain

SpecClean == InitClean /\ [][NextClean]_vars

(***************************************************************************)
(* SpecCount: the segmentation of the worker, which sets total_chunks      *)
(* (tasks/tts_tasks.py:69-85), and the segmentation of generate_tts_async, *)
(* which is synthesized (tts_service.py:386-411), for one text             *)
(***************************************************************************)
\* settings.max_chars_per_chunk
max_chars_per_chunk == 500

\* the chunk size the worker takes in legacy mode
legacy_chunk_size == 500

\* tasks/tts_tasks.py:72-81: ssml_config is a preset name or a config
\* object whenever use_ssml is set
WorkerChunkSize(use, max_sentence_len) ==
    IF use THEN max_sentence_len * 3 ELSE legacy_chunk_size

\* tts_service.py:391-402
GenChunkSize(use, max_sentence_len, text_length, memory_usage) ==
    LET optimal == OptimalChunkSize(max_chars_per_chunk, text_length,
                                    memory_usage).value
    IN  IF use THEN Min(max_sentence_len * 3, optimal) ELSE optimal

\* split_text(t, size) with what went into it
Segmentation(t, size) ==
    LET r == split_text(t, size)
    IN  [kind |-> IF r.raised THEN "IndexError" ELSE "chunks",
         text |-> t, chunk_size |-> size, chunks |-> r.chunks]

InitCount ==
    /\ cn_use_ssml \in BOOLEAN
    /\ cn_text \in CleanTexts
    /\ cn_max_sentence_len \in SentenceLens
    /\ cn_memory_usage \in MemReadings
    /\ cn_worker = NoSegmentation
    /\ cn_gen = NoSegmentation
    /\ SplitIdle
    /\ JobIdle
    /\ SaveIdle
    /\ ChunkIdle
    /\ TuneIdle
    /\ SsmlIdle
    /\ PresetIdle
    /\ CleanIdle

\* tasks/tts_tasks.py:69-85: the worker cleans the text in both modes,
\* splits it and stores len(chunks) as total_chunks
WorkerSegment ==
    /\ cn_worker = NoSegmentation
    /\ cn_worker' = Segmentation(clean_text(cn_text),
                        WorkerChunkSize(cn_use_ssml, cn_max_sentence_len))
    /\ UNCHANGED <<cn_use_ssml, cn_text, cn_max_sentence_len, cn_memory_usage,
                   cn_gen>>
    /\ UNCHANGED offCountVars

\* tts_service.py:386-411: generate_tts_async is handed tts_request.text
\* (tasks/tts_tasks.py:98-100) and cleans it in legacy mode only
GenSegment ==
    /\ cn_worker # NoSegmentation
    /\ cn_gen = NoSegmentation
    /\ LET cleaned_text == IF cn_use_ssml THEN cn_text
                           ELSE clean_text(cn_text)
           chunk_size == GenChunkSize(cn_use_ssml, cn_max_sentence_len,
                                      Len(cleaned_text), cn_memory_usage)
       IN  cn_gen' = IF cleaned_text = <<>>
                     THEN [kind |-> "ValueError", text |-> cleaned_text,
                           chunk_size |-> 0, chunks |-> <<>>]
                     ELSE Segmentation(cleaned_text, chunk_size)
    /\ UNCHANGED <<cn_use_ssml, cn_text, cn_max_sentence_len, cn_memory_usage,
                   cn_worker>>
    /\ UNCHANGED offCountVars

NextCount == WorkerSegment \/ GenSegment

SpecCount == InitCount /\ [][NextCount]_vars

(***************************************************************************)
(* Properties                                                              *)
(***************************************************************************)

\* C1 (SpecSplit): the chunks split_text returns, concatenated in order,
\* are the text itself.
C1_ExactReconstruction ==
    (result # NotRun /\ ~result.raised) => Concat(result.chunks) = text

\* C2 (SpecSplit): when the paragraph, sentence or clause strategy is the
\* one whose output split_text returns, every returned chunk has length at
\* most max_chars.
C2_AcceptedChunksWithinLimit ==
    result.strategy \in 1..3 =>
        \A k \in 1..Len(result.chunks) : Len(result.chunks[k]) <= max_chars

\* C3: the file list handed to the assembler names the part files of chunks
\* 0..N-1 in increasing index, and the assembled audio holds the chunks'
\* audio in that order, whatever order the chunks finished in.
C3_ManifestInChunkOrder ==
    /\ manifest # <<>> =>
           /\ Len(manifest) = nchunks
           /\ \A i \in 1..Len(manifest) : ParseDecimal(manifest[i]) = i - 1
    /\ \A i \in 1..Len(final_audio) : final_audio[i] = i - 1

C3_Witness ==
    /\ out_of_order
    /\ Len(manifest) >= 3
    /\ Len(final_audio) = nchunks

InFlight == {c \in Chunks : pc[c] = "synth"}

\* C4: the number of synthesis calls in flight never exceeds the job's
\* concurrency limit, and every slot not held by a call in flight is free:
\* a task in retry backoff holds none.
C4_BoundedInFlight ==
    /\ Cardinality(InFlight) <= max_concurrency
    /\ (\E c \in Chunks : pc[c] # "new") =>
           sem + Cardinality(InFlight) = max_concurrency

C4_Witness ==
    /\ InFlight # {}
    /\ Cardinality(InFlight) = max_concurrency
    /\ \E c \in Chunks : pc[c] = "wait" /\ calls[c] >= 1

BatchOf(c) == c \div batch_size

Active == {c \in Chunks : pc[c] \in {"wait", "synth", "sleep"}}

\* C5: a task of a batch exists only when every chunk of every earlier batch
\* has finished successfully, and the tasks not yet finished all belong to
\* one batch of at most batch_size chunks.
C5_BatchSequential ==
    /\ \A c \in Chunks : pc[c] # "new" =>
           \A d \in Chunks : BatchOf(d) < BatchOf(c) =>
               /\ pc[d] = "done"
               /\ dir_exists => part_files[d] = [audio |-> d, complete |-> TRUE]
    /\ \A c \in Active : \A d \in Active : BatchOf(c) = BatchOf(d)
    /\ Cardinality(Active) <= batch_size

C5_Witness ==
    \E c \in Chunks : c >= batch_size /\ pc[c] = "synth" /\ batch_size >= 2

\* C6: a chunk is attempted at most max_retries times, with one backoff wait
\* after each failed attempt but the last; a job in which a chunk has used up
\* its attempts ends failed, with the error of the first such chunk: its
\* index, max_retries and the chunk's last underlying error; and the
\* assembler has not run.
C6_RetryThenFail ==
    /\ \A c \in Chunks :
           /\ calls[c] <= max_retries
           /\ pc[c] = "failed" =>
                  calls[c] = max_retries /\ sleeps[c] = max_retries - 1
           /\ pc[c] = "sleep" => sleeps[c] = calls[c] /\ calls[c] < max_retries
           /\ pc[c] \in {"synth", "done"} => sleeps[c] = calls[c] - 1
           /\ pc[c] = "wait" => sleeps[c] = calls[c]
    /\ (\E c \in Chunks : pc[c] = "failed") =>
           /\ manifest = <<>> /\ final_audio = <<>>
           /\ gen_pc \in {"gather", "exit"}
           /\ gather_exc.kind = "RuntimeError"
           /\ LET c == gather_exc.chunk
              IN  /\ c \in Chunks
                  /\ pc[c] = "failed"
                  /\ gather_exc.attempts = max_retries
                  /\ gather_exc.cause = last_error[c]
           /\ gen_pc = "exit" => exc = gather_exc
           /\ worker_pc = "done" =>
                  status = "failed" /\ error_message = gather_exc

C6_Witness ==
    /\ worker_pc = "done"
    /\ error_message.kind = "RuntimeError"
    /\ error_message.chunk >= 1
    /\ \E c \in Chunks : pc[c] = "failed" /\ sleeps[c] = max_retries - 1

\* C7: once a cancel has been accepted, no chunk that has not started
\* synthesis is started and no task of a further batch is created.
C7_NoDispatchAfterCancel ==
    [][cancel_ok =>
          \A c \in Chunks :
              /\ calls[c] = 0 => calls'[c] = 0
              /\ pc[c] = "new" => pc'[c] = "new"]_vars

\* C8: when generate_tts_async has been left, by return or by exception, the
\* job's temp directory and every part file are gone.
C8_TempDirRemovedOnExit ==
    gen_pc = "exit" =>
        /\ ~dir_exists
        /\ \A k \in Chunks : part_files[k] = NoFile

C8_Witness ==
    /\ gen_pc = "exit"
    /\ exc.kind = "RuntimeError"
    /\ \E c \in Chunks : pc[c] = "done"

\* C9: a job whose chunks were all synthesized and assembled ends completed,
\* with its audio location set and processed_chunks equal to total_chunks.
C9_SuccessfulJobCompletes ==
    (worker_pc = "done" /\ exc = NoExc) =>
        /\ status = "completed"
        /\ audio_url # None
        /\ processed_chunks = total_chunks

\* C10: while the chunks of a job are being synthesized, processed_chunks of
\* the row is the number of chunks completed so far.
C10_ProgressPerChunk ==
    (worker_pc = "generate" /\ gen_pc \in {"batch", "gather", "concat"}) =>
        processed_chunks = Cardinality({c \in Chunks : pc[c] = "done"})

\* the payload of a frame: everything after its first \r\n\r\n
Payload(data) == SubSeq(data, Find(data, HeaderEnd) + 5, Len(data))

RECURSIVE AudioPayloads(_)
AudioPayloads(msgs) ==
    IF msgs = <<>> THEN <<>>
    ELSE (IF IsAudioFrame(Head(msgs)) THEN Payload(Head(msgs).data) ELSE <<>>)
             \o AudioPayloads(Tail(msgs))

\* C11 (SpecSave): while no frame whose Path is audio has been received,
\* save has not returned and has written no output file; when the iteration
\* ends in that case save raises.
C11_NoAudioRaises ==
    (\A i \in 1..Len(received) : ~IsAudioFrame(received[i])) =>
        /\ save_pc # "returned"
        /\ output_file = NotWritten
        /\ save_pc = "raised" => save_exc # None

C11_Witness ==
    /\ save_pc = "raised"
    /\ save_exc = "RuntimeError: No audio data received"
    /\ \E i \in 1..Len(received) :
           received[i].type = "TEXT" /\ Find(received[i].data, HeaderEnd) > 0

\* C12 (SpecSave): the audio save writes is the concatenation, in arrival
\* order, of the payloads of the received audio frames, a payload being what
\* follows the first \r\n\r\n of the frame.
C12_AudioIsPayloads ==
    save_pc = "returned" => output_file = AudioPayloads(received)

\* C13: with two or more part files concatenate_audio does not raise,
\* whichever way the concatenation tool fails, and leaves a final audio.
C13_AssemblyNeverRaises ==
    (gen_pc = "exit" /\ manifest # <<>>) =>
        /\ concat_ret # "raised"
        /\ exc = NoExc
        /\ final_audio # <<>>

\* C14: when the output holds only the first chunk's audio, the value
\* concatenate_audio returned is not the value it returns for a complete
\* concatenation.
C14_DegradedOutcomeFlagged ==
    assembly = "first" => concat_ret # ConcatReturn("copy")

\* the number a well-formed rate or pitch string stands for, "" being 0 and
\* an unsigned number positive
Quantity(s, unit) ==
    IF s = <<>> THEN 0
    ELSE ParseInt(SubSeq(s, 1, Len(s) - Len(unit))).value

HasUnit(s, unit) ==
    /\ Len(s) > Len(unit)
    /\ SubSeq(s, Len(s) - Len(unit) + 1, Len(s)) = unit
    /\ ParseInt(SubSeq(s, 1, Len(s) - Len(unit))).ok

\* the call carries the plain text and the configuration's voice, rate and
\* pitch, a pitch in percent converted at 2 Hz per percent
CarriesConfig(call, config) ==
    /\ call.api = "edge_tts"
    /\ call.input = "text"
    /\ call.voice = config.voice
    /\ HasUnit(config.base_rate, <<"%">>) =>
           /\ call.rate = <<>> \/ (HasUnit(call.rate, <<"%">>)
                                      /\ StartsWithSign(call.rate))
           /\ Quantity(call.rate, <<"%">>)
                  = Quantity(config.base_rate, <<"%">>)
    /\ HasUnit(config.pitch, <<"H", "z">>) =>
           /\ call.pitch = <<>> \/ HasUnit(call.pitch, <<"H", "z">>)
           /\ Quantity(call.pitch, <<"H", "z">>)
                  = Quantity(config.pitch, <<"H", "z">>)
    /\ HasUnit(config.pitch, <<"%">>) =>
           /\ call.pitch = <<>> \/ HasUnit(call.pitch, <<"H", "z">>)
           /\ Quantity(call.pitch, <<"H", "z">>)
                  = 2 * Quantity(config.pitch, <<"%">>)

\* C15 (SpecChunk): in style mode a failed protocol call is followed, in the
\* same attempt, by a plain-text call with the voice, base rate and pitch of
\* the style configuration; the except clause of process_chunk has run once
\* per failed plain-text call and never otherwise, so a retry is consumed
\* only when the plain-text call fails too; a return carries no exception.
C15_FallbackInSameAttempt ==
    ck_use_ssml =>
        /\ \A i \in 1..Len(ck_calls) :
               (ck_calls[i].call.api = "ssml_communicate"
                    /\ ck_calls[i].outcome = "failed") =>
                   /\ i < Len(ck_calls)
                   /\ ck_calls[i + 1].attempt = ck_calls[i].attempt
                   /\ CarriesConfig(ck_calls[i + 1].call, ck_config)
        /\ ck_failed = Cardinality({i \in 1..Len(ck_calls) :
                                       /\ ck_calls[i].call.api = "edge_tts"
                                       /\ ck_calls[i].outcome = "failed"})
        /\ ck_attempt = IF ck_pc \in {"sleep", "raised"} THEN ck_failed
                        ELSE ck_failed + 1
        /\ ck_pc = "returned" => ck_exc = None

C15_Witness ==
    /\ ck_use_ssml
    /\ ck_pc = "returned"
    /\ ck_attempt = 1
    /\ ck_failed = 0
    /\ Len(ck_calls) = 2
    /\ ck_calls[1].outcome = "failed"
    /\ ck_calls[2].outcome = "ok"
    /\ ck_calls[2].call.rate = <<"-", "1", "5", "%">>
    /\ ck_calls[2].call.pitch = <<"+", "2", "H", "z">>

\* the calls a first attempt can succeed with
FirstAttemptCalls ==
    IF ck_use_ssml THEN {SsmlCall(ck_config), FallbackCall(ck_config)}
    ELSE {LegacyCall(ck_args)}

\* C16 (SpecChunk): when process_chunk returns, whatever the number of
\* failed attempts before, the part file holds exactly the audio of the call
\* that succeeded, and that call is one a first attempt makes: nothing a
\* failed attempt wrote is left in the file.
C16_RetryIdempotent ==
    ck_pc = "returned" =>
        /\ ck_calls[Len(ck_calls)].call \in FirstAttemptCalls
        /\ ck_file = Audio(ck_calls[Len(ck_calls)].call)

C16_Witness ==
    /\ ck_pc = "returned"
    /\ ck_attempt = max_retries
    /\ ck_failed = max_retries - 1
    /\ ck_file # <<>>

\* C17 (SpecTune): the chunk size get_optimal_chunk_size returns is not
\* larger than the configured base size, for every memory reading and text
\* length.
C17_ChunkSizeOnlyShrinks ==
    tn_chunk_size.called => tn_chunk_size.value <= tn_base_chunk_size

EntityTails ==
    { <<"a", "m", "p", ";">>, <<"l", "t", ";">>, <<"g", "t", ";">>,
      <<"q", "u", "o", "t", ";">>, <<"a", "p", "o", "s", ";">> }

\* the tokens i+1 .. i+Len(tail) of doc are the characters of tail
CharsAt(doc, i, tail) ==
    /\ i + Len(tail) <= Len(doc)
    /\ \A k \in 1..Len(tail) :
           doc[i + k].kind = "char" /\ doc[i + k].name = tail[k]

\* C19 (SpecSsml): the document generate_ssml returns is one speak element
\* holding one voice element and nothing else, its character content is
\* well formed (no bare "<", every "&" starts an entity reference that is
\* complete before the next tag), and it is the four tags alone when the
\* text is empty after normalization.
C19_OneSpeakOneVoice ==
    sg_ssml # NoDocument =>
        /\ Len(sg_ssml) >= 4
        /\ sg_ssml[1] = StartTag("speak", sg_ssml[1].attrs)
        /\ sg_ssml[2] = StartTag("voice", sg_ssml[2].attrs)
        /\ sg_ssml[Len(sg_ssml) - 1] = EndTag("voice")
        /\ sg_ssml[Len(sg_ssml)] = EndTag("speak")
        /\ \A i \in 3..(Len(sg_ssml) - 2) :
               /\ sg_ssml[i].name \notin {"speak", "voice"} \/ sg_ssml[i].kind = "char"
               /\ sg_ssml[i].kind = "char" => sg_ssml[i].name # "<"
               /\ (sg_ssml[i].kind = "char" /\ sg_ssml[i].name = "&") =>
                      \E tail \in EntityTails : CharsAt(sg_ssml, i, tail)
        /\ preprocess_text(sg_text) = <<>> => Len(sg_ssml) = 4

\* the positions of the prosody start tags of the document
ProsodyAt == {i \in 1..Len(sg_ssml) : sg_ssml[i] = StartTag("prosody", sg_ssml[i].attrs)}

\* C20 (SpecSsml): with a percentage as base rate, the rate attribute of
\* each sentence's prosody element is the base, plus the opening delta for
\* the first sentence of the document, plus the ending delta for the last
\* one, written as a signed percentage.
C20_RateIsBasePlusDeltas ==
    (sg_ssml # NoDocument /\ HasUnit(sg_config.base_rate, <<"%">>)) =>
        \A i \in ProsodyAt :
            sg_ssml[i].attrs[1] =
                <<"rate",
                  FormatSigned(
                      Quantity(sg_config.base_rate, <<"%">>)
                          + (IF \A j \in ProsodyAt : i <= j
                             THEN Quantity(sg_config.opening_delta, <<"%">>)
                             ELSE 0)
                          + (IF \A j \in ProsodyAt : i >= j
                             THEN Quantity(sg_config.ending_delta, <<"%">>)
                             ELSE 0)) \o <<"%">> >>

\* the comma-class characters of _insert_sentence_breaks
CommaClass == {CJK_COMMA, "u3001"}

\* C21 (SpecSsml): for a text with a comma-class character, a second render
\* gives the same document when the configuration is the same and a
\* different one when only structure.comma_pause differs.
C21_CommaPauseShows ==
    (sg_again # NoDocument /\ \E i \in 1..Len(sg_text) : sg_text[i] \in CommaClass) =>
        /\ sg_other_pause = sg_config.comma_pause => sg_again = sg_ssml
        /\ sg_other_pause # sg_config.comma_pause => sg_again # sg_ssml

\* the fields no keyword fills
FixedFields ==
    {"fallback", "transition_duration", "auto_split_long_sentence",
     "chapter_pause", "dialog_pause"}

RECURSIVE CharContent(_)
CharContent(doc) ==
    IF doc = <<>> THEN <<>>
    ELSE (IF Head(doc).kind = "char" THEN <<Head(doc).name>> ELSE <<>>)
             \o CharContent(Tail(doc))

NonSpace(t) == SelectSeq(t, LAMBDA c : ~IsSpace(c))

\* C23 (SpecSsml): the characters of the document, tags removed, are the
\* characters of the normalized and escaped text in the same order, up to
\* whitespace.
C23_TextPreserved ==
    sg_ssml # NoDocument =>
        NonSpace(CharContent(sg_ssml)) = NonSpace(preprocess_text(sg_text))

\* the number of characters of the prosody element that starts at token i
RECURSIVE PieceLen(_, _)
PieceLen(doc, i) ==
    IF i >= Len(doc) \/ doc[i + 1] = EndTag("prosody") THEN 0
    ELSE (IF doc[i + 1].kind = "char" THEN 1 ELSE 0) + PieceLen(doc, i + 1)

\* C25 (SpecSsml): the text of every prosody element of the document has
\* at most structure.max_sentence_len characters.
C25_PiecesWithinLimit ==
    sg_ssml # NoDocument =>
        \A i \in ProsodyAt : PieceLen(sg_ssml, i) <= sg_config.max_sentence_len

\* C26 (SpecSsml): every "&" of the document starts a complete entity
\* reference inside its prosody element, no bare "<" is left, and the
\* document has one entity per reserved character of the text.
C26_EntitiesWhole ==
    sg_ssml # NoDocument =>
        /\ \A i \in 1..Len(sg_ssml) :
               sg_ssml[i].kind = "char" =>
                   /\ sg_ssml[i].name # "<"
                   /\ sg_ssml[i].name = "&" =>
                          \E tail \in EntityTails : CharsAt(sg_ssml, i, tail)
        /\ Cardinality({i \in 1..Len(sg_ssml) :
                            sg_ssml[i].kind = "char" /\ sg_ssml[i].name = "&"})
               = Cardinality({i \in 1..Len(sg_text) : sg_text[i] \in {"&", "<"}})

\* C24: _split_by_length(T, S) with S > 0 ends without an error, every chunk
\* has at most S characters, and the chunks are consecutive stretches of T
\* that leave no character out: put end to end they give T back.
C24_LengthCutKeepsAll ==
    length_result # NotRun =>
        /\ ~length_result.raised
        /\ \A k \in 1..Len(length_result.chunks) :
               Len(length_result.chunks[k]) <= max_chars
        /\ Concat(length_result.chunks) = text

\* the tasks of process_chunk that have not run to their end: waiting for
\* the limiter, inside communicate.save, or asleep before the next attempt
Unfinished == {c \in Chunks : pc[c] \in {"wait", "synth", "sleep"}}

\* C27: the job's temp directory is removed only when no chunk synthesis
\* of the job is in flight or still has to write its part file; when one
\* chunk exhausts its retries, the other chunks of its batch have finished
\* before the directory goes.
C27_RemovedOnlyWhenQuiet ==
    [][(dir_exists /\ ~dir_exists') => Unfinished = {}]_vars

TerminalStatuses == {"cancelled", "completed", "failed"}

\* C28: a status of cancelled, completed or failed never changes again,
\* whatever the order of the steps of the API and of the worker.
C28_TerminalAbsorbing ==
    [][(status \in TerminalStatuses) => (status' = status)]_vars

\* C30: clean_text applied to its own output changes nothing, and its
\* output has only characters of the allow-list and no two white-space
\* characters in a row.
C30_CleanIdempotent ==
    cl_twice # NotCleaned =>
        /\ cl_twice = cl_once
        /\ \A i \in 1..Len(cl_once) : KeptChar(cl_once[i])
        /\ \A i \in 1..(Len(cl_once) - 1) :
               ~(IsSpace(cl_once[i]) /\ IsSpace(cl_once[i + 1]))

\* C29: in both modes, the number of chunks the worker records as
\* total_chunks is the number of chunks generate_tts_async segments the
\* text into and synthesizes.
C29_CountsAgree ==
    (cn_worker.kind = "chunks" /\ cn_gen.kind = "chunks") =>
        Len(cn_worker.chunks) = Len(cn_gen.chunks)

====
